---- MODULE Spec2Model ----
(***************************************************************************)
(* Decoders of the smo-file-formats repository as state machines:          *)
(*   Yaz0.decompress (yaz0.py), BinaryReader (util.py), SARC (sarc.py),    *)
(*   SZS (szs.py), BYML (byml.py).                                         *)
(* A byte string is a sequence of numbers 0..255.  Python indexes from 0,  *)
(* TLA+ sequences from 1: At(s, i) is Python's s[i] for 0 <= i < len(s).   *)
(* Python integers are unbounded; the inputs are kept small enough that    *)
(* no value leaves the range of the model checker's integers.              *)
(***************************************************************************)
EXTENDS Integers, Sequences, FiniteSets, TLC

VARIABLES
    src,    \* the argument of Yaz0.decompress / SZS.__init__
    yaz,    \* the locals of one call of Yaz0.decompress, and where it stands
    sarc,   \* one construction of a SARC: its argument, reader, tables and files
    szs,    \* one construction of an SZS
    byml,   \* one construction of a BYML: its arguments, reader, tables, root and output
    rs,     \* one call of BinaryReader.read_string: its arguments, reader and result
    lbl,    \* one construction of a LabelBlock: its reader, groups and labels
    msbp,   \* one construction of an MSBP: its reader, header, blocks and data
    msbt    \* the message files of a run, and the construction of one MSBT

----------------------------------------------------------------------------
(* Bounds of the model. *)

\* longest bitstream (bytes after offset 0x10) enumerated exhaustively
MaxData == 4
\* largest declared size tried with every bitstream (besides the sizes the scenarios need)
MaxSize == 4
\* most files in an enumerated archive
MaxFiles == 2
\* most entries of an enumerated BYML root node
MaxEntries == 1
\* most code units of an enumerated string field
MaxUnits == 3
MaxLabels == 3
MaxMessageFiles == 2

----------------------------------------------------------------------------
(* Byte strings with Python's indexing. *)

At(s, i) == s[i + 1]

\* s[a:b] for 0 <= a and 0 <= b
Slice(s, a, b) ==
    LET hi == IF b > Len(s) THEN Len(s) ELSE b
    IN  IF a >= hi THEN <<>> ELSE SubSeq(s, a + 1, hi)

\* s[a:]
SliceFrom(s, a) == Slice(s, a, Len(s))

\* s[i] is an IndexError unless -len(s) <= i < len(s)
PyIndexOK(s, i) == -Len(s) <= i /\ i < Len(s)

\* s[i] with Python's negative indices counting from the end
PyGet(s, i) == IF i < 0 THEN At(s, i + Len(s)) ELSE At(s, i)

Zeros(n) == [k \in 1..n |-> 0]

RECURSIVE SeqsUpTo(_, _)
\* every sequence over alphabet of length <= n
SeqsUpTo(alphabet, n) ==
    IF n = 0 THEN {<<>>}
    ELSE LET shorter == SeqsUpTo(alphabet, n - 1)
         IN  shorter \cup {Append(s, b) : s \in {t \in shorter : Len(t) = n - 1}, b \in alphabet}

Prefixes(s) == {SubSeq(s, 1, n) : n \in 0..Len(s)}

\* struct.unpack(">I", b) for a 4-byte b
UnpackBE32(b) == ((b[1] * 256 + b[2]) * 256 + b[3]) * 256 + b[4]

\* struct.pack(">I", n)
PackBE32(n) == << (n \div 16777216) % 256, (n \div 65536) % 256, (n \div 256) % 256, n % 256 >>

----------------------------------------------------------------------------
(* BinaryReader, util.py:23-191.  A reader is [stream, byte_order, position];
   an operation gives [r, val, err]: the reader after it, its value, and the
   exception it raised ("" when none). *)

Min(a, b) == IF a < b THEN a ELSE b
Max(a, b) == IF a > b THEN a ELSE b

\* s[a:b] with Python's rules for bounds that are negative or past the end
PySlice(s, a, b) ==
    LET lo == IF a < 0 THEN Max(a + Len(s), 0) ELSE Min(a, Len(s))
        hi == IF b < 0 THEN Max(b + Len(s), 0) ELSE Min(b, Len(s))
    IN  IF lo >= hi THEN <<>> ELSE SubSeq(s, lo + 1, hi)

\* util.py:24-27
BinaryReader(stream) == [stream |-> stream, byte_order |-> "little", position |-> 0]

Ret(r, val, err) == [r |-> r, val |-> val, err |-> err]

\* util.py:33-37
seek(r, offset, relative) ==
    IF relative THEN [r EXCEPT !.position = @ + offset] ELSE [r EXCEPT !.position = offset]

\* util.py:44-55; _check_len (39-42) raises OSError("EOF reached")
read(r, size, suppress) ==
    IF size = -1
    THEN LET out == PySlice(r.stream, r.position, Len(r.stream))
         IN  Ret([r EXCEPT !.position = @ + Len(out)], out, "")
    ELSE LET out == PySlice(r.stream, r.position, r.position + size)
         IN  IF ~suppress /\ Len(out) # size
             THEN Ret([r EXCEPT !.position = @ + size], <<>>, "OSError")
             ELSE Ret([r EXCEPT !.position = @ + size], out, "")

RECURSIVE UnpackBig(_)
\* the unsigned value of bytes, most significant first
UnpackBig(b) == IF b = <<>> THEN 0 ELSE UnpackBig(SubSeq(b, 1, Len(b) - 1)) * 256 + b[Len(b)]

Reverse(b) == [k \in 1..Len(b) |-> b[Len(b) + 1 - k]]

\* struct.unpack(endianness + fmt, out) for the unsigned formats B, H, I
UnpackUnsigned(b, byte_order) ==
    IF byte_order = "big" THEN UnpackBig(b) ELSE UnpackBig(Reverse(b))

\* struct.unpack for the signed formats b, h, i: two's complement
UnpackSigned(b, byte_order) ==
    LET m == IF byte_order = "big" THEN b ELSE Reverse(b)
        top == IF m[1] >= 128 THEN m[1] - 256 ELSE m[1]
    IN  UnpackBig(<<0>> \o SubSeq(m, 2, Len(m))) + top * (256 ^ (Len(m) - 1))

\* o, unless it raised, followed by F(o), which reads on from o.r
Bind(o, F(_)) == IF o.err # "" THEN o ELSE F(o)

\* o with its value replaced
WithVal(o, val) == Ret(o.r, val, o.err)

\* util.py:57-60, for an unsigned format of size bytes
ReadUnsigned(r, size) ==
    Bind(read(r, size, FALSE), LAMBDA o : WithVal(o, UnpackUnsigned(o.val, r.byte_order)))

\* util.py:78-79
read_u8(r) == ReadUnsigned(r, 1)
\* util.py:84-85
read_u16(r) == ReadUnsigned(r, 2)
\* util.py:87-92
read_u24(r) == ReadUnsigned(r, 3)
\* util.py:97-98
read_u32(r) == ReadUnsigned(r, 4)

\* util.py:94-95
read_s32(r) ==
    Bind(read(r, 4, FALSE), LAMBDA o : WithVal(o, UnpackSigned(o.val, r.byte_order)))

\* util.py:106-107
read_bytes(r, size) == read(r, size, FALSE)

\* rest with val put before its list of values
Prepend(val, rest) == Ret(rest.r, <<val>> \o rest.val, rest.err)

RECURSIVE ReadUnsignedList(_, _, _)
\* util.py:136-137 and the like: count values of size bytes each, one after another
ReadUnsignedList(r, size, count) ==
    IF count <= 0 THEN Ret(r, <<>>, "")
    ELSE Bind(ReadUnsigned(r, size),
              LAMBDA o : Prepend(o.val, ReadUnsignedList(o.r, size, count - 1)))

\* util.py:124-125
read_u8s(r, count) == ReadUnsignedList(r, 1, count)
\* util.py:136-137
read_u32s(r, count) == ReadUnsignedList(r, 4, count)

(* bytes.decode(encoding_name): [err, text], text the sequence of code points. *)

DecodeError == [err |-> "UnicodeDecodeError", text |-> <<>>]
Decoded(text) == [err |-> "", text |-> text]
IsCont(b) == 128 <= b /\ b <= 191
IsSurrogate(cp) == 55296 <= cp /\ cp <= 57343

RECURSIVE DecodeUtf8(_)
DecodeUtf8(b) ==
    IF b = <<>> THEN Decoded(<<>>)
    ELSE LET n == IF b[1] < 128 THEN 1
                  ELSE IF 194 <= b[1] /\ b[1] <= 223 THEN 2
                  ELSE IF 224 <= b[1] /\ b[1] <= 239 THEN 3
                  ELSE IF 240 <= b[1] /\ b[1] <= 244 THEN 4 ELSE 0
         IN  IF n = 0 \/ Len(b) < n \/ \E k \in 2..n : ~IsCont(b[k]) THEN DecodeError
             ELSE LET c(k) == b[k] % 64
                      cp == CASE n = 1 -> b[1]
                              [] n = 2 -> (b[1] % 32) * 64 + c(2)
                              [] n = 3 -> ((b[1] % 16) * 64 + c(2)) * 64 + c(3)
                              [] n = 4 -> (((b[1] % 8) * 64 + c(2)) * 64 + c(3)) * 64 + c(4)
                      bad == \/ n = 3 /\ (cp < 2048 \/ IsSurrogate(cp))
                             \/ n = 4 /\ (cp < 65536 \/ cp > 1114111)
                      rest == DecodeUtf8(SubSeq(b, n + 1, Len(b)))
                  IN  IF bad \/ rest.err # "" THEN DecodeError
                      ELSE Decoded(<<cp>> \o rest.text)

DecodeAscii(b) == IF \E k \in 1..Len(b) : b[k] >= 128 THEN DecodeError ELSE Decoded(b)

RECURSIVE DecodeUtf16Units(_, _)
\* b without a byte-order mark, in the given byte order
DecodeUtf16Units(b, byte_order) ==
    IF b = <<>> THEN Decoded(<<>>)
    ELSE IF Len(b) < 2 THEN DecodeError
    ELSE LET u == UnpackUnsigned(SubSeq(b, 1, 2), byte_order)
         IN  IF ~IsSurrogate(u)
             THEN LET rest == DecodeUtf16Units(SubSeq(b, 3, Len(b)), byte_order)
                  IN  IF rest.err # "" THEN DecodeError ELSE Decoded(<<u>> \o rest.text)
             ELSE IF u >= 56320 \/ Len(b) < 4 THEN DecodeError
             ELSE LET v == UnpackUnsigned(SubSeq(b, 3, 4), byte_order)
                  IN  IF ~(56320 <= v /\ v <= 57343) THEN DecodeError
                      ELSE LET rest == DecodeUtf16Units(SubSeq(b, 5, Len(b)), byte_order)
                           IN  IF rest.err # "" THEN DecodeError
                               ELSE Decoded(<<65536 + (u - 55296) * 1024 + (v - 56320)>> \o rest.text)

\* "utf-16": a leading byte-order mark chooses the order and is dropped; without
\* one the host's order is used, little-endian on the hosts the tools run on
DecodeUtf16(b) ==
    IF Len(b) >= 2 /\ SubSeq(b, 1, 2) = <<255, 254>> THEN DecodeUtf16Units(SubSeq(b, 3, Len(b)), "little")
    ELSE IF Len(b) >= 2 /\ SubSeq(b, 1, 2) = <<254, 255>> THEN DecodeUtf16Units(SubSeq(b, 3, Len(b)), "big")
    ELSE DecodeUtf16Units(b, "little")

RECURSIVE DecodeUtf32Units(_, _)
DecodeUtf32Units(b, byte_order) ==
    IF b = <<>> THEN Decoded(<<>>)
    ELSE IF Len(b) < 4 THEN DecodeError
    ELSE LET m == IF byte_order = "big" THEN SubSeq(b, 1, 4) ELSE Reverse(SubSeq(b, 1, 4))
             cp == UnpackBig(SubSeq(m, 2, 4))
         IN  IF m[1] # 0 \/ cp > 1114111 \/ IsSurrogate(cp) THEN DecodeError
             ELSE LET rest == DecodeUtf32Units(SubSeq(b, 5, Len(b)), byte_order)
                  IN  IF rest.err # "" THEN DecodeError ELSE Decoded(<<cp>> \o rest.text)

\* "utf-32", with the byte-order mark handled as for "utf-16"
DecodeUtf32(b) ==
    IF Len(b) >= 4 /\ SubSeq(b, 1, 4) = <<255, 254, 0, 0>> THEN DecodeUtf32Units(SubSeq(b, 5, Len(b)), "little")
    ELSE IF Len(b) >= 4 /\ SubSeq(b, 1, 4) = <<0, 0, 254, 255>> THEN DecodeUtf32Units(SubSeq(b, 5, Len(b)), "big")
    ELSE DecodeUtf32Units(b, "little")

\* util.py:167, out.decode(encoding_name)
Decode(b, encoding_name) ==
    CASE encoding_name = "utf-8"  -> DecodeUtf8(b)
      [] encoding_name = "ascii"  -> DecodeAscii(b)
      [] encoding_name = "utf-16" -> DecodeUtf16(b)
      [] encoding_name = "utf-32" -> DecodeUtf32(b)

\* the read of the k-th code unit after the cursor ends the loop of util.py:157:
\* it raises, or it returns the one byte b'\x00'
EndsRun(r, char_size, k) ==
    \A o \in {read(seek(r, k * char_size, TRUE), char_size, FALSE)} : o.err # "" \/ o.val = <<0>>

\* util.py:156-158: read(char_size) until it returns the one byte b'\x00'
ReadUntilNull(r, char_size, out) ==
    LET last == CHOOSE k \in 0..Len(r.stream) :
                    EndsRun(r, char_size, k) /\ \A j \in 0..(k - 1) : ~EndsRun(r, char_size, j)
    IN  Bind(read(seek(r, last * char_size, TRUE), char_size, FALSE),
             LAMBDA o : WithVal(o, out \o PySlice(r.stream, r.position,
                                                  r.position + last * char_size)))

\* util.py:162: the code units out[i:i+char_size] for i in range(0, size, char_size)
CodeUnits(out, size, char_size) ==
    [k \in 1..((size + char_size - 1) \div char_size) |->
        PySlice(out, (k - 1) * char_size, (k - 1) * char_size + char_size)]

\* util.py:164: not int.from_bytes(char, byte_order), true of b"" as well
IsNullUnit(char) == \A k \in 1..Len(char) : char[k] = 0

\* util.py:163-165: for i, char in enumerate(chars): a char of value 0 cuts out to
\* out[:i]; the cuts are made at increasing i, so that the first one decides
CutAtNulls(out, chars, i) ==
    LET nulls == {k \in i..(Len(chars) - 1) : IsNullUnit(At(chars, k))}
    IN  IF nulls = {} THEN out
        ELSE PySlice(out, 0, CHOOSE k \in nulls : \A j \in nulls : k <= j)

\* util.py:167: the text decoded, or the decoder's exception
Decoding(r, d) == Ret(r, d.text, d.err)

\* util.py:154-167
read_string(r, encoding_name, size, char_size) ==
    IF size = -1
    THEN Bind(ReadUntilNull(r, char_size, <<>>),
              LAMBDA o : Decoding(o.r, Decode(o.val, encoding_name)))
    ELSE Bind(read(r, size, TRUE),
              LAMBDA o : Decoding(o.r, Decode(CutAtNulls(o.val, CodeUnits(o.val, size, char_size), 0),
                                              encoding_name)))

\* util.py:169-174; Log.error (util.py:9-11) ends the process: SystemExit
read_signature(r, size, expected) ==
    Bind(read_string(r, "ascii", size, 1),
         LAMBDA o : IF o.val # expected THEN Ret(o.r, o.val, "SystemExit") ELSE o)

\* util.py:176-186
read_byte_order(r) ==
    Bind(read_bytes(r, 2),
         LAMBDA o : IF o.val = <<254, 255>> THEN Ret([o.r EXCEPT !.byte_order = "big"], "big", "")
                    ELSE IF o.val = <<255, 254>> THEN Ret([o.r EXCEPT !.byte_order = "little"], "little", "")
                    ELSE Ret(o.r, o.r.byte_order, "SystemExit"))

\* util.py:188-191
align(r, alignment) ==
    seek(r, (((-r.position) % alignment) + alignment) % alignment, TRUE)

\* util.py:81-82
read_s16(r) ==
    Bind(read(r, 2, FALSE), LAMBDA o : WithVal(o, UnpackSigned(o.val, r.byte_order)))

\* util.py:130-131
read_u16s(r, count) == ReadUnsignedList(r, 2, count)

----------------------------------------------------------------------------
(* Yaz0.decompress, yaz0.py:10-63 *)

Yaz0Magic == <<89, 97, 122, 48>>    \* b'Yaz0'

\* the state of a call that has not been entered yet
YazCall ==
    [pc |-> "call", err |-> "", uncompressed_size |-> 0, data |-> <<>>,
     dst_buffer |-> <<>>, src_idx |-> 0, dst_idx |-> 0, code_bit_count |-> 0,
     code_byte |-> 0, dist |-> 0, copy_idx |-> 0, num_bytes |-> 0, i |-> 0]

YazRaise(s, e) == [s EXCEPT !.pc = "raise", !.err = e]

\* lines 11-25: the signature, the declared size, the output buffer
YazEnter(stream) ==
    IF Slice(stream, 0, 4) # Yaz0Magic
    THEN YazRaise(YazCall, "SystemExit")
    ELSE IF Len(Slice(stream, 4, 8)) # 4
    THEN YazRaise(YazCall, "struct.error")
    ELSE [YazCall EXCEPT !.pc = "while",
                         !.uncompressed_size = UnpackBE32(Slice(stream, 4, 8)),
                         !.data = SliceFrom(stream, 16),
                         !.dst_buffer = Zeros(UnpackBE32(Slice(stream, 4, 8)))]

\* line 27 (loop test) and line 63 (return)
YazWhile(s) ==
    IF s.dst_idx < s.uncompressed_size
    THEN [s EXCEPT !.pc = "code"]
    ELSE [s EXCEPT !.pc = "done"]

\* lines 28-31: a control byte is fetched when no bit of the last one is left
YazCode(s) ==
    IF s.code_bit_count = 0
    THEN IF ~PyIndexOK(s.data, s.src_idx)
         THEN YazRaise(s, "IndexError")
         ELSE [s EXCEPT !.pc = "op", !.code_byte = At(s.data, s.src_idx),
                        !.src_idx = @ + 1, !.code_bit_count = 8]
    ELSE [s EXCEPT !.pc = "op"]

\* YazBitSet testing the lowest bit instead of the highest
YazBitSet_LowBit(s) == s.code_byte % 2 = 1

\* line 33: (code_byte & 0x80) != 0; code_byte is never masked after its shifts
YazBitSet(s) == (s.code_byte \div 128) % 2 = 1

\* lines 35-37: straight copy
YazLiteral(s) ==
    IF ~PyIndexOK(s.data, s.src_idx)
    THEN YazRaise(s, "IndexError")
    ELSE [s EXCEPT !.pc = "shift",
                   !.dst_buffer[s.dst_idx + 1] = At(s.data, s.src_idx),
                   !.dst_idx = @ + 1, !.src_idx = @ + 1]

\* line 45: dist = ((byte1 & 0xf) << 8) | byte2
YazDist(byte1, byte2) == (byte1 % 16) * 256 + byte2

\* line 46: copy_idx = dst_idx - (dist + 1)
YazCopyIdx(dst_idx, dist) == dst_idx - (dist + 1)

\* lines 41-54: the pair, the distance, the length; when the length byte of
\* line 50 is missing, line 48 has already set num_bytes to byte1 >> 4 = 0
YazBackref(s) ==
    IF ~PyIndexOK(s.data, s.src_idx) \/ ~PyIndexOK(s.data, s.src_idx + 1)
    THEN YazRaise(s, "IndexError")
    ELSE LET byte1 == At(s.data, s.src_idx)
             byte2 == At(s.data, s.src_idx + 1)
             t == [s EXCEPT !.src_idx = @ + 2, !.dist = YazDist(byte1, byte2),
                            !.copy_idx = YazCopyIdx(s.dst_idx, YazDist(byte1, byte2)),
                            !.i = 0]
         IN  IF byte1 \div 16 = 0
             THEN IF ~PyIndexOK(t.data, t.src_idx)
                  THEN YazRaise([t EXCEPT !.num_bytes = 0], "IndexError")
                  ELSE [t EXCEPT !.pc = "copy", !.num_bytes = At(t.data, t.src_idx) + 18,
                                 !.src_idx = @ + 1]
             ELSE [t EXCEPT !.pc = "copy", !.num_bytes = (byte1 \div 16) + 2]

\* lines 33-54: one operation, chosen by the top bit of the control byte
YazOp(s) == IF YazBitSet(s) THEN YazLiteral(s) ELSE YazBackref(s)

\* YazCopySource as a block copy would read it: the buffer as it was when the
\* copy began, where nothing at or after the copy's first position was written
YazCopySource_Block(s) ==
    IF s.copy_idx >= s.dst_idx - s.i THEN 0 ELSE PyGet(s.dst_buffer, s.copy_idx)

\* line 56, right-hand side: dst_buffer[copy_idx], read when it is copied
YazCopySource(s) == PyGet(s.dst_buffer, s.copy_idx)

\* YazCopy on a buffer that grows when written past its end
YazCopy_Growing(s) ==
    IF s.i >= s.num_bytes
    THEN [s EXCEPT !.pc = "shift"]
    ELSE IF ~PyIndexOK(s.dst_buffer, s.copy_idx)
    THEN YazRaise(s, "IndexError")
    ELSE [s EXCEPT !.dst_buffer = IF s.dst_idx < Len(@)
                                  THEN [@ EXCEPT ![s.dst_idx + 1] = YazCopySource(s)]
                                  ELSE Append(@, YazCopySource(s)),
                   !.copy_idx = @ + 1, !.dst_idx = @ + 1, !.i = @ + 1]

\* lines 55-58: one round of the copy loop
YazCopy(s) ==
    IF s.i >= s.num_bytes
    THEN [s EXCEPT !.pc = "shift"]
    ELSE IF ~PyIndexOK(s.dst_buffer, s.copy_idx) \/ ~PyIndexOK(s.dst_buffer, s.dst_idx)
    THEN YazRaise(s, "IndexError")
    ELSE [s EXCEPT !.dst_buffer[s.dst_idx + 1] = YazCopySource(s),
                   !.copy_idx = @ + 1, !.dst_idx = @ + 1, !.i = @ + 1]

\* lines 60-61
YazShift(s) ==
    [s EXCEPT !.pc = "while", !.code_byte = @ * 2, !.code_bit_count = @ - 1]

YazStep(s) ==
    CASE s.pc = "while" -> YazWhile(s)
      [] s.pc = "code"  -> YazCode(s)
      [] s.pc = "op"    -> YazOp(s)
      [] s.pc = "copy"  -> YazCopy(s)
      [] s.pc = "shift" -> YazShift(s)
      [] OTHER          -> s

RECURSIVE YazSteps(_, _)
\* n steps of the call, or the steps it has left when they are fewer
YazSteps(s, n) == IF n = 0 \/ s.pc \in {"done", "raise"} THEN s ELSE YazSteps(YazStep(s), n - 1)

RECURSIVE YazRun(_)
\* the call run to its return or its exception, in rounds of 32 steps
YazRun(s) == IF s.pc \in {"done", "raise"} THEN s ELSE YazRun(YazSteps(s, 32))

\* Yaz0.decompress(stream): the returned bytes, or the exception raised
decompress(stream) ==
    LET s == YazRun(YazEnter(stream))
    IN  IF s.pc = "done" THEN [err |-> "", out |-> s.dst_buffer]
        ELSE [err |-> s.err, out |-> <<>>]

(* The streams decompress is applied to. *)

YazHeader(size) == Yaz0Magic \o PackBE32(size) \o Zeros(8)

YazAlphabet == {0, 1, 16, 65, 128, 192}

\* the example of the format's description, four literals
YazABCD == <<240, 65, 66, 67, 68>>
\* two literals, then distance 1 length 3
YazABABA == <<192, 65, 66, 16, 1>>
\* a literal, then distance 0 with the three-byte length form: 0 + 0x12 bytes
YazLongRun == <<128, 65, 0, 0, 0>>
\* eight literals use up the first control byte; a second one follows
YazTwoGroups == <<255, 65, 66, 65, 66, 65, 66, 65, 66, 128, 67>>

YazScenarios == {YazABCD, YazABABA, YazLongRun, YazTwoGroups}

YazData == SeqsUpTo(YazAlphabet, MaxData) \cup UNION {Prefixes(d) : d \in YazScenarios}

YazSizes == 0..MaxSize \cup {5, 9, 19}

YazInputs ==
    {YazHeader(n) \o d : n \in YazSizes, d \in YazData}
        \cup {<<>>, <<89, 97, 122, 49>>, Yaz0Magic, Yaz0Magic \o <<0, 0>>,
              SubSeq(YazHeader(0), 1, 8), SubSeq(YazHeader(2), 1, 12)}

YazInit == src \in YazInputs /\ yaz = YazCall

decompress_enter ==
    /\ yaz.pc = "call"
    /\ yaz' = YazEnter(src)
    /\ UNCHANGED <<src, sarc, szs, byml, rs, lbl, msbp, msbt>>

decompress_while ==
    /\ yaz.pc = "while"
    /\ yaz' = YazWhile(yaz)
    /\ UNCHANGED <<src, sarc, szs, byml, rs, lbl, msbp, msbt>>

decompress_code ==
    /\ yaz.pc = "code"
    /\ yaz' = YazCode(yaz)
    /\ UNCHANGED <<src, sarc, szs, byml, rs, lbl, msbp, msbt>>

decompress_literal ==
    /\ yaz.pc = "op"
    /\ YazBitSet(yaz)
    /\ yaz' = YazLiteral(yaz)
    /\ UNCHANGED <<src, sarc, szs, byml, rs, lbl, msbp, msbt>>

decompress_backref ==
    /\ yaz.pc = "op"
    /\ ~YazBitSet(yaz)
    /\ yaz' = YazBackref(yaz)
    /\ UNCHANGED <<src, sarc, szs, byml, rs, lbl, msbp, msbt>>

decompress_copy ==
    /\ yaz.pc = "copy"
    /\ yaz' = YazCopy(yaz)
    /\ UNCHANGED <<src, sarc, szs, byml, rs, lbl, msbp, msbt>>

decompress_shift ==
    /\ yaz.pc = "shift"
    /\ yaz' = YazShift(yaz)
    /\ UNCHANGED <<src, sarc, szs, byml, rs, lbl, msbp, msbt>>

YazNext ==
    \/ decompress_enter
    \/ decompress_while
    \/ decompress_code
    \/ decompress_literal
    \/ decompress_backref
    \/ decompress_copy
    \/ decompress_shift

----------------------------------------------------------------------------
(* SARC, sarc.py:8-64 *)

\* an assert on the value just read
Asserted(o, expected) ==
    IF o.err = "" /\ o.val # expected THEN Ret(o.r, o.val, "AssertionError") ELSE o

Text_SARC == <<83, 65, 82, 67>>
Text_SFAT == <<83, 70, 65, 84>>
Text_SFNT == <<83, 70, 78, 84>>

\* sarc.py:9-16, Header.__init__: val is [file_size, data_offset]
SarcHeader(r) ==
    Bind(read_signature(r, 4, Text_SARC), LAMBDA sig :
    Bind(Asserted(read_u16(sig.r), 20), LAMBDA hsize :
    Bind(read_byte_order(hsize.r), LAMBDA order :
    Bind(read_u32(order.r), LAMBDA fsize :
    Bind(read_u32(fsize.r), LAMBDA doff :
    Bind(read_u16(doff.r), LAMBDA version :
    Bind(read(version.r, 2, FALSE), LAMBDA reserved :
    WithVal(reserved, [file_size |-> fsize.val, data_offset |-> doff.val]))))))))

\* sarc.py:22-26, SFAT.Entry.__init__, from its four values
SfatEntry(f) ==
    [filename_hash |-> f[1], file_attributes |-> f[2], start_offset |-> f[3], end_offset |-> f[4]]

RECURSIVE SfatEntries(_, _)
\* sarc.py:34: count entries of four u32 each
SfatEntries(r, count) ==
    IF count <= 0 THEN Ret(r, <<>>, "")
    ELSE Bind(ReadUnsignedList(r, 4, 4),
              LAMBDA f : Prepend(SfatEntry(f.val), SfatEntries(f.r, count - 1)))

\* sarc.py:28-34, SFAT.__init__: val is [file_count, files]
SarcSFAT(r) ==
    Bind(read_signature(r, 4, Text_SFAT), LAMBDA sig :
    Bind(Asserted(read_u16(sig.r), 12), LAMBDA eoff :
    Bind(read_u16(eoff.r), LAMBDA count :
    Bind(read_u32(count.r), LAMBDA hkey :
    Bind(SfatEntries(hkey.r, count.val), LAMBDA ents :
    WithVal(ents, [file_count |-> count.val, files |-> ents.val]))))))

RECURSIVE SfntNames(_, _)
\* sarc.py:44-47: count names, each null-terminated and followed by align(4)
SfntNames(r, count) ==
    IF count <= 0 THEN Ret(r, <<>>, "")
    ELSE Bind(read_string(r, "utf-8", -1, 1),
              LAMBDA n : Prepend(n.val, SfntNames(align(n.r, 4), count - 1)))

\* sarc.py:39-47, SFNT.__init__: val is filenames
SarcSFNT(r, count) ==
    Bind(read_signature(r, 4, Text_SFNT), LAMBDA sig :
    Bind(Asserted(read_u16(sig.r), 8), LAMBDA noff :
    Bind(read(noff.r, 2, FALSE), LAMBDA reserved :
    SfntNames(reserved.r, count))))

\* self.files[filename] = file_data
DictSet(d, key, value) == [k \in DOMAIN d \cup {key} |-> IF k = key THEN value ELSE d[k]]

\* a SARC that has not been constructed yet
SarcCall(stream) ==
    [pc |-> "call", err |-> "", stream |-> stream, reader |-> BinaryReader(<<>>),
     data_offset |-> 0, file_count |-> 0, sfat_files |-> <<>>, filenames |-> <<>>,
     files |-> <<>>, i |-> 0]

SarcRaise(s, r, e) == [s EXCEPT !.pc = "raise", !.err = e, !.reader = r]

\* sarc.py:52
SarcEnter(s) == [s EXCEPT !.pc = "Header", !.reader = BinaryReader(s.stream)]

\* sarc.py:53
SarcGotHeader(s, o) ==
    IF o.err # "" THEN SarcRaise(s, o.r, o.err)
    ELSE [s EXCEPT !.pc = "SFAT", !.reader = o.r, !.data_offset = o.val.data_offset]

SarcDoHeader(s) == SarcGotHeader(s, SarcHeader(s.reader))

\* sarc.py:54
SarcGotSFAT(s, o) ==
    IF o.err # "" THEN SarcRaise(s, o.r, o.err)
    ELSE [s EXCEPT !.pc = "SFNT", !.reader = o.r, !.file_count = o.val.file_count,
                   !.sfat_files = o.val.files]

SarcDoSFAT(s) == SarcGotSFAT(s, SarcSFAT(s.reader))

\* sarc.py:55
SarcGotSFNT(s, o) ==
    IF o.err # "" THEN SarcRaise(s, o.r, o.err)
    ELSE [s EXCEPT !.pc = "files", !.reader = o.r, !.filenames = o.val]

SarcDoSFNT(s) == SarcGotSFNT(s, SarcSFNT(s.reader, s.file_count))

\* sarc.py:60: length = file.end_offset - file.start_offset
SarcLength(file) == file.end_offset - file.start_offset

\* SarcFileData with the entry's offsets taken from the start of the buffer
SarcFileData_NoDataOffset(s, file) ==
    read(seek(s.reader, file.start_offset, FALSE), SarcLength(file), FALSE)

\* sarc.py:59-62: file_data, read at data_offset + start_offset
SarcFileData(s, file) ==
    read(seek(s.reader, s.data_offset + file.start_offset, FALSE), SarcLength(file), FALSE)

\* sarc.py:64
SarcStore(s, filename, o) ==
    IF o.err # "" THEN SarcRaise(s, o.r, o.err)
    ELSE [s EXCEPT !.reader = o.r, !.files = DictSet(@, filename, o.val), !.i = @ + 1]

\* sarc.py:58-64: one round of the loop over zip(sfat.files, sfnt.filenames)
SarcDoFile(s) ==
    IF s.i >= Min(Len(s.sfat_files), Len(s.filenames))
    THEN [s EXCEPT !.pc = "done"]
    ELSE SarcStore(s, At(s.filenames, s.i), SarcFileData(s, At(s.sfat_files, s.i)))

SarcStep(s) ==
    CASE s.pc = "call"   -> SarcEnter(s)
      [] s.pc = "Header" -> SarcDoHeader(s)
      [] s.pc = "SFAT"   -> SarcDoSFAT(s)
      [] s.pc = "SFNT"   -> SarcDoSFNT(s)
      [] s.pc = "files"  -> SarcDoFile(s)
      [] OTHER           -> s

RECURSIVE SarcRun(_)
SarcRun(s) == IF s.pc \in {"done", "raise"} THEN s ELSE SarcRun(SarcStep(s))

\* SARC(stream): the files of the constructed archive, or the exception raised
SARC(stream) ==
    LET s == SarcRun(SarcCall(stream))
    IN  IF s.pc = "done" THEN [err |-> "", files |-> s.files]
        ELSE [err |-> s.err, files |-> <<>>]

(* The archives SARC is constructed from. *)

\* struct.pack of an unsigned value in size bytes
PackUnsigned(n, size, byte_order) ==
    LET big == [k \in 1..size |-> (n \div (256 ^ (size - k))) % 256]
    IN  IF byte_order = "big" THEN big ELSE Reverse(big)

ByteOrderMark(byte_order) == IF byte_order = "big" THEN <<254, 255>> ELSE <<255, 254>>

RECURSIVE Concat(_)
Concat(ss) == IF ss = <<>> THEN <<>> ELSE Head(ss) \o Concat(Tail(ss))

\* a name of the name table: null-terminated, padded to a multiple of 4
PaddedName(name) == LET z == name \o <<0>> IN z \o Zeros((4 - (Len(z) % 4)) % 4)

\* an archive in the layout of sarc.py: names[i] names the bytes
\* data[entries[i][1] : entries[i][2]], every field in byte_order
BuildSarc(byte_order, names, entries, data) ==
    LET u16(n) == PackUnsigned(n, 2, byte_order)
        u32(n) == PackUnsigned(n, 4, byte_order)
        sfat == Text_SFAT \o u16(12) \o u16(Len(entries)) \o u32(101)
                  \o Concat([k \in 1..Len(entries) |->
                        u32(0) \o u32(0) \o u32(entries[k][1]) \o u32(entries[k][2])])
        sfnt == Text_SFNT \o u16(8) \o u16(0) \o Concat([k \in 1..Len(names) |-> PaddedName(names[k])])
        data_offset == 20 + Len(sfat) + Len(sfnt)
    IN  Text_SARC \o u16(20) \o ByteOrderMark(byte_order) \o u32(data_offset + Len(data))
          \o u32(data_offset) \o u16(256) \o u16(0) \o sfat \o sfnt \o data

SarcNames == {<<97>>, <<98, 99, 100, 101>>}                  \* "a", "bcde"
SarcData == <<88, 89, 90>>                                   \* "XYZ"
\* the start and end offsets of an entry: empty, "XY", "YZ", "XYZ", a length of
\* -1 and of -2, and an end past the data
SarcOffsets == {<<0, 0>>, <<0, 2>>, <<1, 3>>, <<0, 3>>, <<1, 0>>, <<2, 0>>, <<2, 4>>}

\* sequences of exactly n elements of S
SeqsOfLen(S, n) == {s \in SeqsUpTo(S, n) : Len(s) = n}

SarcWellFormed ==
    UNION {{BuildSarc(order, names, entries, SarcData) :
                order \in {"little", "big"},
                names \in SeqsOfLen(SarcNames, n),
                entries \in SeqsOfLen(SarcOffsets, n)} : n \in 0..MaxFiles}

SarcBase == BuildSarc("little", << <<97>> >>, << <<0, 2>> >>, SarcData)

\* SarcBase with the byte at (0-based) offset k replaced
Patched(s, k, b) == [s EXCEPT ![k + 1] = b]

SarcMalformed ==
    Prefixes(SarcBase) \cup {Patched(SarcBase, k, 0) : k \in {0, 4, 6, 20, 24, 36, 40}}

SarcInputs == SarcWellFormed \cup SarcMalformed

SarcInit == sarc \in {SarcCall(a) : a \in SarcInputs}

SARC_enter ==
    /\ sarc.pc = "call"
    /\ sarc' = SarcEnter(sarc)
    /\ UNCHANGED <<src, yaz, szs, byml, rs, lbl, msbp, msbt>>

SARC_Header ==
    /\ sarc.pc = "Header"
    /\ sarc' = SarcDoHeader(sarc)
    /\ UNCHANGED <<src, yaz, szs, byml, rs, lbl, msbp, msbt>>

SARC_SFAT ==
    /\ sarc.pc = "SFAT"
    /\ sarc' = SarcDoSFAT(sarc)
    /\ UNCHANGED <<src, yaz, szs, byml, rs, lbl, msbp, msbt>>

SARC_SFNT ==
    /\ sarc.pc = "SFNT"
    /\ sarc' = SarcDoSFNT(sarc)
    /\ UNCHANGED <<src, yaz, szs, byml, rs, lbl, msbp, msbt>>

SARC_file ==
    /\ sarc.pc = "files"
    /\ sarc' = SarcDoFile(sarc)
    /\ UNCHANGED <<src, yaz, szs, byml, rs, lbl, msbp, msbt>>

SarcNext ==
    \/ SARC_enter
    \/ SARC_Header
    \/ SARC_SFAT
    \/ SARC_SFNT
    \/ SARC_file

SarcIdle == SarcCall(<<>>)

----------------------------------------------------------------------------
(* SZS, szs.py:1-16 *)

\* the names module yaz0 defines at its top level (yaz0.py:3-6, 8, 75)
Yaz0ModuleNames == {"argparse", "os", "struct", "sys", "Yaz0", "main"}

SzsCall == [pc |-> "call", err |-> "", files |-> <<>>]

\* szs.py:9 and 15-16: the archive parsed from the uncompressed bytes
SzsParsed(a) ==
    IF a.err # "" THEN [pc |-> "raise", err |-> a.err, files |-> <<>>]
    ELSE [pc |-> "done", err |-> "", files |-> a.files]

\* szs.py:8-9, with the decompressor's result d
SzsUncompressed(d) ==
    IF d.err # "" THEN [pc |-> "raise", err |-> d.err, files |-> <<>>]
    ELSE SzsParsed(SARC(d.out))

\* szs.py:7-9, SZS.__init__: line 8 looks up decompress in module yaz0 (szs.py:2)
SzsInit(stream) ==
    IF "decompress" \notin Yaz0ModuleNames
    THEN [pc |-> "raise", err |-> "AttributeError", files |-> <<>>]
    ELSE SzsUncompressed(decompress(stream))

RECURSIVE YazStoredGroups(_)
\* bytes as literal operations: each group a control byte 0xFF and up to 8 bytes
YazStoredGroups(bytes) ==
    IF bytes = <<>> THEN <<>>
    ELSE <<255>> \o SubSeq(bytes, 1, Min(8, Len(bytes)))
           \o YazStoredGroups(SubSeq(bytes, Min(8, Len(bytes)) + 1, Len(bytes)))

\* a Yaz0 stream that decompresses to bytes
YazStored(bytes) == YazHeader(Len(bytes)) \o YazStoredGroups(bytes)

SzsArchives ==
    UNION {{BuildSarc(order, names, entries, SarcData) :
                order \in {"little", "big"},
                names \in SeqsOfLen(SarcNames, n),
                entries \in SeqsOfLen(SarcOffsets, n)} : n \in 0..1}

SzsInputs ==
    {YazStored(a) : a \in SzsArchives \cup SarcMalformed}
        \cup {YazHeader(n) \o d : n \in {4, 5}, d \in Prefixes(YazABCD) \cup Prefixes(YazABABA)}
        \cup {<<>>, <<89, 97, 122, 49>>, Yaz0Magic}

SzsInitial == src \in SzsInputs /\ szs = SzsCall

SZS_init ==
    /\ szs.pc = "call"
    /\ szs' = SzsInit(src)
    /\ UNCHANGED <<src, yaz, sarc, byml, rs, lbl, msbp, msbt>>

SzsNext == SZS_init

----------------------------------------------------------------------------
(* BYML, byml.py:9-190.  The decoder's state is a context b = [reader, quiet,
   hash_key_table, string_table, cur_node, stdout, stderr]; an operation gives
   [b, val, err].  A table is [some, list]: None has some = FALSE.  A decoded
   value is tagged with its Python type. *)

\* byml.py:9-22, NodeType
NT_STRING == 160
NT_BINARY == 161
NT_ARRAY == 192
NT_HASH == 193
NT_STRING_TABLE == 194
NT_BOOL == 208
NT_I32 == 209
NT_F32 == 210
NT_U32 == 211
NT_I64 == 212
NT_U64 == 213
NT_F64 == 214
NT_NULL == 255

NodeTypes == {NT_STRING, NT_BINARY, NT_ARRAY, NT_HASH, NT_STRING_TABLE, NT_BOOL, NT_I32,
              NT_F32, NT_U32, NT_I64, NT_U64, NT_F64, NT_NULL}

\* byml.py:25-26
OFFSET_TYPES == {NT_BINARY, NT_ARRAY, NT_HASH, NT_I64, NT_U64, NT_F64}

\* the attributes of a BinaryReader: its methods and property (util.py:29-191)
\* and the fields its constructor sets (util.py:25-27)
BinaryReaderAttrs ==
    {"stream", "byte_order", "_position", "position", "seek", "_check_len", "read", "_read",
     "peek", "read_bool", "read_s8", "read_u8", "read_s16", "read_u16", "read_u24",
     "read_s32", "read_u32", "read_s64", "read_u64", "read_bytes", "read_f16", "read_f32",
     "read_f64", "read_bools", "read_s8s", "read_u8s", "read_s16s", "read_u16s",
     "read_s32s", "read_u32s", "read_s64s", "read_u64s", "read_f16s", "read_f32s",
     "read_f64s", "read_string", "read_signature", "read_byte_order", "align"}

\* the attributes of self.reader that byml.py:181-186 names while the table of
\* constructors is built
ContainerCtorAttrs == {"read_i32", "read_f32", "read_u32", "read_i64", "read_u64", "read_f64"}

NoTable == [some |-> FALSE, list |-> <<>>]
Table(list) == [some |-> TRUE, list |-> list]

PyNone == [t |-> "None"]
PyInt(v) == [t |-> "int", v |-> v]
PyBool(v) == [t |-> "bool", v |-> v]
PyStr(v) == [t |-> "str", v |-> v]
PyBytes(v) == [t |-> "bytes", v |-> v]
PyList(v) == [t |-> "list", v |-> v]
\* a dict: its keys in insertion order, and its values by key
PyDict(keys, map) == [t |-> "dict", keys |-> keys, map |-> map]
\* a float or a 64-bit integer, kept as the bytes struct.unpack is given
PyPacked(fmt, bytes, byte_order) == [t |-> fmt, v |-> bytes, byte_order |-> byte_order]

\* hash[name] = value
PyDictPut(d, key, value) ==
    PyDict(IF key \in DOMAIN d.map THEN d.keys ELSE Append(d.keys, key),
           DictSet(d.map, key, value))

BRet(b, val, err) == [b |-> b, val |-> val, err |-> err]

\* a reader operation done on the context's reader
BRead(b, o) == BRet([b EXCEPT !.reader = o.r], o.val, o.err)

\* util.py:14-15, Log.info: a message is its fixed text and the values formatted into it
LogInfo(b, text, args) == [b EXCEPT !.stdout = Append(@, [text |-> text, args |-> args])]

\* util.py:9-11, Log.error: the message, then sys.exit(1)
LogError(b, text, args) ==
    BRet([b EXCEPT !.stderr = Append(@, [text |-> text, args |-> args])], <<>>, "SystemExit")

\* NodeType(value) of the byte just read: ValueError when it is no member
AsNodeType(o) == IF o.err = "" /\ o.val \notin NodeTypes THEN BRet(o.b, o.val, "ValueError") ELSE o

\* byml.py:49-53: the path of the node being decoded, self.cur_node[0] and then one
\* [repr] per later element: a key is <<"key", name>>, an index <<"index", i>>
get_cur_node(b) == [head |-> b.cur_node[1], ancestors |-> Tail(b.cur_node)]

\* self.cur_node.append / pop
Push(b, segment) == [b EXCEPT !.cur_node = Append(@, segment)]
Pop(b) == [b EXCEPT !.cur_node = SubSeq(@, 1, Len(@) - 1)]
PopVal(o) == IF o.err # "" THEN o ELSE BRet(Pop(o.b), o.val, "")

\* byml.py:55-64
get_string(b, idx, is_hash_key) ==
    LET table == IF is_hash_key THEN b.hash_key_table ELSE b.string_table
    IN  IF ~table.some THEN LogError(b, "can't index nonexistent string table", <<>>)
        ELSE IF ~PyIndexOK(table.list, idx)
        THEN LogError(b, "string table index out of range", <<get_cur_node(b)>>)
        ELSE BRet(b, PyGet(table.list, idx), "")

RECURSIVE TableStrings(_, _, _)
\* byml.py:78-81
TableStrings(b, start, offsets) ==
    IF offsets = <<>> THEN BRet(b, <<>>, "")
    ELSE Bind(BRead(b, read_string(seek(b.reader, start + Head(offsets), FALSE), "utf-8", -1, 1)),
              LAMBDA s : Bind(TableStrings(s.b, start, Tail(offsets)),
                              LAMBDA rest : BRet(rest.b, <<s.val>> \o rest.val, "")))

\* byml.py:66-83
read_string_table(b, start) ==
    IF start = 0 THEN BRet(b, NoTable, "")
    ELSE Bind(AsNodeType(BRead(b, read_u8(seek(b.reader, start, FALSE)))), LAMBDA type :
         IF type.val # NT_STRING_TABLE THEN LogError(type.b, "expected STRING_TABLE, got", <<type.val>>)
         ELSE Bind(BRead(type.b, read_u24(type.b.reader)), LAMBDA count :
              Bind(BRead(count.b, read_u32s(count.b.reader, count.val)), LAMBDA offsets :
              Bind(TableStrings(offsets.b, start, offsets.val), LAMBDA strings :
              BRet(strings.b, Table(strings.val), "")))))

\* byml.py:105-107
read_string_node(b) ==
    Bind(BRead(b, read_u32(b.reader)), LAMBDA idx :
    Bind(get_string(idx.b, idx.val, FALSE), LAMBDA s : BRet(s.b, PyStr(s.val), "")))

\* byml.py:109-111
read_binary_node(b) ==
    Bind(BRead(b, read_u32(b.reader)), LAMBDA length :
    Bind(BRead(length.b, read_bytes(length.b.reader, length.val)), LAMBDA bytes :
    BRet(bytes.b, PyBytes(bytes.val), "")))

\* byml.py:154-161
read_bool_node(b) ==
    Bind(BRead(b, read_u32(b.reader)), LAMBDA value :
    IF value.val = 0 THEN BRet(value.b, PyBool(FALSE), "")
    ELSE IF ~b.quiet /\ value.val # 1
    THEN BRet(LogInfo(value.b, "bool node has value, should be 0 or 1",
                      <<value.val, get_cur_node(value.b)>>), PyBool(TRUE), "")
    ELSE BRet(value.b, PyBool(TRUE), ""))

\* byml.py:163-168
read_null_node(b) ==
    Bind(BRead(b, read_u32(b.reader)), LAMBDA value :
    IF ~b.quiet /\ value.val # 0
    THEN BRet(LogInfo(value.b, "null node value, should be 0",
                      <<value.val, get_cur_node(value.b)>>), PyNone, "")
    ELSE BRet(value.b, PyNone, ""))

\* a value struct.unpack reads from size bytes, kept packed
ReadPacked(b, fmt, size) ==
    Bind(BRead(b, read(b.reader, size, FALSE)), LAMBDA bytes :
    BRet(bytes.b, PyPacked(fmt, bytes.val, b.reader.byte_order), ""))

\* byml.py:171-173
EntryOffset(b, entry_type) ==
    IF entry_type \in OFFSET_TYPES
    THEN Bind(BRead(b, read_u32(b.reader)), LAMBDA offset :
              BRet([offset.b EXCEPT !.reader = seek(@, offset.val, FALSE)], offset.val, ""))
    ELSE BRet(b, 0, "")

\* byml.py:115-117 and 135-137: the warning for a node whose type byte is not expected
TypeWarned(b, node_type, expected, text) ==
    IF ~b.quiet /\ node_type # expected THEN LogInfo(b, text, <<node_type, get_cur_node(b)>>)
    ELSE b

RECURSIVE read_container_entry(_, _)
RECURSIVE read_array_node(_)
RECURSIVE read_hash_node(_)
RECURSIVE ArrayEntries(_, _, _, _, _)
RECURSIVE HashEntries(_, _, _, _, _)

\* byml.py:175-190: the table of constructors is built, then indexed and called;
\* building it reads every attribute of ContainerCtorAttrs off the reader.  A reader
\* that had read_i32 and read_i64 is taken to read signed values of those widths.
ContainerCtor(b, entry_type) ==
    IF ~(ContainerCtorAttrs \subseteq BinaryReaderAttrs) THEN BRet(b, <<>>, "AttributeError")
    ELSE CASE entry_type = NT_STRING -> read_string_node(b)
           [] entry_type = NT_BINARY -> read_binary_node(b)
           [] entry_type = NT_ARRAY  -> read_array_node(b)
           [] entry_type = NT_HASH   -> read_hash_node(b)
           [] entry_type = NT_BOOL   -> read_bool_node(b)
           [] entry_type = NT_I32    -> Bind(BRead(b, read_s32(b.reader)),
                                             LAMBDA v : BRet(v.b, PyInt(v.val), ""))
           [] entry_type = NT_F32    -> ReadPacked(b, "f", 4)
           [] entry_type = NT_U32    -> Bind(BRead(b, read_u32(b.reader)),
                                             LAMBDA v : BRet(v.b, PyInt(v.val), ""))
           [] entry_type = NT_I64    -> ReadPacked(b, "q", 8)
           [] entry_type = NT_U64    -> ReadPacked(b, "Q", 8)
           [] entry_type = NT_F64    -> ReadPacked(b, "d", 8)
           [] entry_type = NT_NULL   -> read_null_node(b)
           [] OTHER                  -> BRet(b, <<>>, "KeyError")

\* byml.py:170-190
read_container_entry(b, entry_type) ==
    Bind(EntryOffset(b, entry_type), LAMBDA at : ContainerCtor(at.b, entry_type))

\* byml.py:124-131
ArrayEntries(b, entries_start, entry_types, i, entries) ==
    IF i >= Len(entry_types) THEN BRet(b, PyList(entries), "")
    ELSE Bind(read_container_entry(
                  [Push(b, <<"index", i>>) EXCEPT !.reader = seek(@, entries_start + i * 4, FALSE)],
                  At(entry_types, i)),
              LAMBDA e : ArrayEntries(Pop(e.b), entries_start, entry_types, i + 1,
                                      Append(entries, e.val)))

\* byml.py:120: [NodeType(t) for t in ...] is a ValueError at the first t that is no member
AsNodeTypes(o) ==
    IF o.err = "" /\ \E k \in 1..Len(o.val) : o.val[k] \notin NodeTypes
    THEN BRet(o.b, o.val, "ValueError") ELSE o

\* byml.py:113-131
read_array_node(b) ==
    Bind(AsNodeType(BRead(b, read_u8(b.reader))), LAMBDA type :
    Bind(BRead(TypeWarned(type.b, type.val, NT_ARRAY, "hash node type is, should be ARRAY"),
               read_u24(type.b.reader)), LAMBDA count :
    Bind(AsNodeTypes(BRead(count.b, read_u8s(count.b.reader, count.val))), LAMBDA types :
    ArrayEntries([types.b EXCEPT !.reader = align(@, 4)],
                 align(types.b.reader, 4).position, types.val, 0, <<>>))))

\* byml.py:142-152
HashEntries(b, entries_start, entry_count, i, hash) ==
    IF i >= entry_count THEN BRet(b, hash, "")
    ELSE Bind(BRead(b, read_u24(seek(b.reader, entries_start + i * 8, FALSE))), LAMBDA idx :
         Bind(get_string(idx.b, idx.val, TRUE), LAMBDA name :
         Bind(AsNodeType(BRead(Push(name.b, <<"key", name.val>>), read_u8(name.b.reader))),
              LAMBDA type :
         Bind(read_container_entry(type.b, type.val), LAMBDA e :
         HashEntries(Pop(e.b), entries_start, entry_count, i + 1,
                     PyDictPut(hash, name.val, e.val))))))

\* byml.py:133-152
read_hash_node(b) ==
    Bind(AsNodeType(BRead(b, read_u8(b.reader))), LAMBDA type :
    Bind(BRead(TypeWarned(type.b, type.val, NT_HASH, "hash node type is, should be HASH"),
               read_u24(type.b.reader)), LAMBDA count :
    HashEntries(count.b, count.b.reader.position, count.val, 0, PyDict(<<>>, <<>>))))

\* byml.py:95-103: the constructor for the root's type, called, and the path popped
RootCtor(b, node_type) ==
    IF node_type = NT_ARRAY THEN PopVal(read_array_node(b))
    ELSE IF node_type = NT_HASH THEN PopVal(read_hash_node(b))
    ELSE LogError(b, "invalid root node type", <<node_type>>)

\* byml.py:85-103
read_root(b, start) ==
    IF start = 0 THEN BRet(b, PyNone, "")
    ELSE Bind(AsNodeType(BRead(Push(b, <<"root">>), read_u8(seek(b.reader, start, FALSE)))),
              LAMBDA type : RootCtor([type.b EXCEPT !.reader = seek(@, -1, TRUE)], type.val))

\* byml.py:30-31: the signature chooses the byte order; any other is a KeyError
BymlByteOrder(o) ==
    IF o.val = <<66, 89>> THEN Ret([o.r EXCEPT !.byte_order = "big"], "big", "")
    ELSE IF o.val = <<89, 66>> THEN Ret([o.r EXCEPT !.byte_order = "little"], "little", "")
    ELSE Ret(o.r, o.val, "KeyError")

\* byml.py:29-35, Header.__init__: val is the three offsets
BymlHeader(r) ==
    Bind(read_bytes(r, 2), LAMBDA signature :
    Bind(BymlByteOrder(signature), LAMBDA order :
    Bind(read_u16(order.r), LAMBDA version :
    Bind(read_u32(version.r), LAMBDA hkt :
    Bind(read_u32(hkt.r), LAMBDA st :
    Bind(read_u32(st.r), LAMBDA root :
    WithVal(root, [hash_key_table_offset |-> hkt.val, string_table_offset |-> st.val,
                   root_offset |-> root.val])))))))

\* a BYML that has not been constructed yet
BymlCall(stream, quiet) ==
    [pc |-> "call", err |-> "", stream |-> stream, quiet |-> quiet,
     b |-> [reader |-> BinaryReader(<<>>), quiet |-> quiet, hash_key_table |-> NoTable,
            string_table |-> NoTable, cur_node |-> <<>>, stdout |-> <<>>, stderr |-> <<>>],
     header |-> [hash_key_table_offset |-> 0, string_table_offset |-> 0, root_offset |-> 0],
     root |-> PyNone]

BymlRaise(s, b, e) == [s EXCEPT !.pc = "raise", !.err = e, !.b = b]

\* byml.py:40-41 and 43
BymlEnter(s) == [s EXCEPT !.pc = "Header", !.b.reader = BinaryReader(s.stream)]

\* byml.py:42
BymlGotHeader(s, o) ==
    IF o.err # "" THEN BymlRaise(s, [s.b EXCEPT !.reader = o.r], o.err)
    ELSE [s EXCEPT !.pc = "hash_key_table", !.b.reader = o.r, !.header = o.val]

BymlDoHeader(s) == BymlGotHeader(s, BymlHeader(s.b.reader))

\* byml.py:45
BymlGotHashKeyTable(s, o) ==
    IF o.err # "" THEN BymlRaise(s, o.b, o.err)
    ELSE [s EXCEPT !.pc = "string_table", !.b = [o.b EXCEPT !.hash_key_table = o.val]]

BymlDoHashKeyTable(s) ==
    BymlGotHashKeyTable(s, read_string_table(s.b, s.header.hash_key_table_offset))

\* byml.py:46
BymlGotStringTable(s, o) ==
    IF o.err # "" THEN BymlRaise(s, o.b, o.err)
    ELSE [s EXCEPT !.pc = "root", !.b = [o.b EXCEPT !.string_table = o.val]]

BymlDoStringTable(s) ==
    BymlGotStringTable(s, read_string_table(s.b, s.header.string_table_offset))

\* byml.py:47
BymlGotRoot(s, o) ==
    IF o.err # "" THEN BymlRaise(s, o.b, o.err)
    ELSE [s EXCEPT !.pc = "done", !.b = o.b, !.root = o.val]

BymlDoRoot(s) == BymlGotRoot(s, read_root(s.b, s.header.root_offset))

BymlStep(s) ==
    CASE s.pc = "call"           -> BymlEnter(s)
      [] s.pc = "Header"         -> BymlDoHeader(s)
      [] s.pc = "hash_key_table" -> BymlDoHashKeyTable(s)
      [] s.pc = "string_table"   -> BymlDoStringTable(s)
      [] s.pc = "root"           -> BymlDoRoot(s)
      [] OTHER                   -> s

RECURSIVE BymlRun(_)
BymlRun(s) == IF s.pc \in {"done", "raise"} THEN s ELSE BymlRun(BymlStep(s))

\* BYML(stream, quiet): the constructed document, or the exception raised
BYML(stream, quiet) == BymlRun(BymlCall(stream, quiet))

----------------------------------------------------------------------------
(* The BYML documents the model decodes. *)

\* s padded with zeros to a multiple of 4
Pad4(s) == s \o Zeros((4 - (Len(s) % 4)) % 4)

\* a string table node as read_string_table reads it: the type, the count, one
\* offset from the node's start per string, then the null-terminated strings
BuildStringTable(byte_order, strings) ==
    LET n == Len(strings)
        z == [k \in 1..n |-> strings[k] \o <<0>>]
        offset(k) == 4 + 4 * n + Len(Concat(SubSeq(z, 1, k - 1)))
    IN  Pad4(<<NT_STRING_TABLE>> \o PackUnsigned(n, 3, byte_order)
              \o Concat([k \in 1..n |-> PackUnsigned(offset(k), 4, byte_order)])
              \o Concat(z))

\* a hash node as read_hash_node reads it; an entry is <<name_idx, type, value>>
BuildHashNode(byte_order, entries) ==
    <<NT_HASH>> \o PackUnsigned(Len(entries), 3, byte_order)
      \o Concat([k \in 1..Len(entries) |->
            PackUnsigned(entries[k][1], 3, byte_order) \o <<entries[k][2]>>
              \o PackUnsigned(entries[k][3], 4, byte_order)])

\* an array node as read_array_node reads it, with the types and values of entries
BuildArrayNode(byte_order, entries) ==
    Pad4(<<NT_ARRAY>> \o PackUnsigned(Len(entries), 3, byte_order)
          \o [k \in 1..Len(entries) |-> entries[k][2]])
      \o Concat([k \in 1..Len(entries) |-> PackUnsigned(entries[k][3], 4, byte_order)])

\* a document in the layout of byml.py: the header, the two tables that are
\* there, and the root node: root is [kind, entries], of kind none, hash or array
BuildByml(byte_order, keys, strings, root) ==
    LET u32(n) == PackUnsigned(n, 4, byte_order)
        hkt == IF keys.some THEN BuildStringTable(byte_order, keys.list) ELSE <<>>
        st == IF strings.some THEN BuildStringTable(byte_order, strings.list) ELSE <<>>
        node == IF root.kind = "hash" THEN BuildHashNode(byte_order, root.entries)
                ELSE IF root.kind = "array" THEN BuildArrayNode(byte_order, root.entries)
                ELSE <<>>
    IN  (IF byte_order = "big" THEN <<66, 89>> ELSE <<89, 66>>) \o PackUnsigned(3, 2, byte_order)
          \o u32(IF keys.some THEN 16 ELSE 0)
          \o u32(IF strings.some THEN 16 + Len(hkt) ELSE 0)
          \o u32(IF root.kind = "none" THEN 0 ELSE 16 + Len(hkt) + Len(st))
          \o hkt \o st \o node

Text_key == <<107, 101, 121>>                                  \* "key"
BymlKeyTables == {NoTable, Table(<<Text_key>>), Table(<<<<97>>, Text_key>>)}
BymlStringTables == {NoTable, Table(<<<<115>>>>)}              \* None, ["s"]
\* the entries <<name_idx, type, value>> of the enumerated root nodes
BymlEntries ==
    {<<0, NT_I32, 42>>, <<0, NT_I32, 0>>, <<1, NT_I32, 42>>, <<2, NT_I32, 42>>, <<0, NT_U32, 42>>,
     <<0, NT_BOOL, 0>>, <<0, NT_BOOL, 1>>, <<0, NT_BOOL, 2>>, <<1, NT_BOOL, 2>>,
     <<0, NT_STRING, 0>>, <<0, NT_STRING, 1>>, <<2, NT_STRING, 1>>,
     <<0, NT_HASH, 0>>, <<0, NT_NULL, 1>>}
BymlRoots ==
    {[kind |-> "none", entries |-> <<>>]}
      \cup {[kind |-> kind, entries |-> e] :
                kind \in {"hash", "array"}, e \in SeqsUpTo(BymlEntries, MaxEntries)}

BymlWellFormed ==
    {BuildByml(order, keys, strings, root) :
        order \in {"little", "big"}, keys \in BymlKeyTables,
        strings \in BymlStringTables, root \in BymlRoots}

\* the one-entry map of key index 0 into ["key"] and an i32 entry holding 42
BymlBase ==
    BuildByml("little", Table(<<Text_key>>), Table(<<<<115>>>>),
              [kind |-> "hash", entries |-> << <<0, NT_I32, 42>> >>])

\* BymlBase cut short, and with its signature, a table's type, the root's
\* type, the entry's name index and the entry's type replaced
BymlMalformed ==
    Prefixes(BymlBase)
      \cup {Patched(BymlBase, 0, 0), Patched(BymlBase, 16, NT_HASH), Patched(BymlBase, 16, 0),
            Patched(BymlBase, 28, NT_HASH), Patched(BymlBase, 40, NT_BOOL),
            Patched(BymlBase, 40, 0), Patched(BymlBase, 44, 5), Patched(BymlBase, 47, 0),
            Patched(BymlBase, 47, NT_STRING_TABLE)}

BymlInputs == BymlWellFormed \cup BymlMalformed

BymlInit == byml \in {BymlCall(d, quiet) : d \in BymlInputs, quiet \in BOOLEAN}

BYML_enter ==
    /\ byml.pc = "call"
    /\ byml' = BymlEnter(byml)
    /\ UNCHANGED <<src, yaz, sarc, szs, rs, lbl, msbp, msbt>>

BYML_Header ==
    /\ byml.pc = "Header"
    /\ byml' = BymlDoHeader(byml)
    /\ UNCHANGED <<src, yaz, sarc, szs, rs, lbl, msbp, msbt>>

BYML_hash_key_table ==
    /\ byml.pc = "hash_key_table"
    /\ byml' = BymlDoHashKeyTable(byml)
    /\ UNCHANGED <<src, yaz, sarc, szs, rs, lbl, msbp, msbt>>

BYML_string_table ==
    /\ byml.pc = "string_table"
    /\ byml' = BymlDoStringTable(byml)
    /\ UNCHANGED <<src, yaz, sarc, szs, rs, lbl, msbp, msbt>>

BYML_root ==
    /\ byml.pc = "root"
    /\ byml' = BymlDoRoot(byml)
    /\ UNCHANGED <<src, yaz, sarc, szs, rs, lbl, msbp, msbt>>

BymlNext ==
    \/ BYML_enter
    \/ BYML_Header
    \/ BYML_hash_key_table
    \/ BYML_string_table
    \/ BYML_root

BymlIdle == BymlCall(<<>>, FALSE)

----------------------------------------------------------------------------
(* One call of BinaryReader.read_string (util.py:154-167) on a fresh reader,
   with the widths and encodings of lms.py:39-43 and read_signature's ascii. *)

\* lms.py:39-43, and util.py:170
StrEncodings == {<<1, "utf-8">>, <<2, "utf-16">>, <<4, "utf-32">>, <<1, "ascii">>}

\* the code units the enumerated fields are made of: null, "A", "B"
StrUnitValues == {0, 65, 66}

\* the streams of up to MaxUnits little-endian code units of char_size bytes
StrStreams(char_size) ==
    {Concat([k \in 1..Len(u) |-> PackUnsigned(u[k], char_size, "little")]) :
        u \in SeqsUpTo(StrUnitValues, MaxUnits)}

StrCall(stream, byte_order, encoding_name, size, char_size) ==
    [pc |-> "call", reader |-> [BinaryReader(stream) EXCEPT !.byte_order = byte_order],
     encoding_name |-> encoding_name, size |-> size, char_size |-> char_size,
     val |-> <<>>, err |-> ""]

StrCalls ==
    UNION {{StrCall(stream, order, e[2], size, e[1]) :
                stream \in StrStreams(e[1]), order \in {"little", "big"},
                size \in {-1} \cup {e[1] * n : n \in 0..(MaxUnits + 1)}} : e \in StrEncodings}

StrGot(s, o) == [s EXCEPT !.pc = IF o.err = "" THEN "done" ELSE "raise",
                          !.reader = o.r, !.val = o.val, !.err = o.err]

StrInit == rs \in StrCalls

BinaryReader_read_string ==
    /\ rs.pc = "call"
    /\ rs' = StrGot(rs, read_string(rs.reader, rs.encoding_name, rs.size, rs.char_size))
    /\ UNCHANGED <<src, yaz, sarc, szs, byml, lbl, msbp, msbt>>

StrNext == BinaryReader_read_string

StrIdle == StrCall(<<>>, "little", "utf-8", 0, 1)

----------------------------------------------------------------------------
(* lms.py: the header, the blocks and the label block of MSBP and MSBT files *)

\* lms.py:5-8
Encoding_UTF8 == 0
Encoding_UTF16 == 1
Encoding_UTF32 == 2

\* lms.py:11-18
ParamType_U8 == 0
ParamType_U16 == 1
ParamType_I16 == 2
ParamType_U32 == 5
ParamType_F32 == 6
ParamType_STRING == 8
ParamType_NULL == 9

\* lms.py:26: Encoding(value) raises ValueError for a value that is no member
Encoding(o) ==
    IF o.err # "" THEN o
    ELSE IF o.val \in {Encoding_UTF8, Encoding_UTF16, Encoding_UTF32} THEN o
    ELSE Ret(o.r, o.val, "ValueError")

\* lms.py:22-31; the value is the header
Header(reader, signature) ==
    Bind(read_signature(reader, 8, signature), LAMBDA sig :
    Bind(read_byte_order(sig.r), LAMBDA order :
    Bind(read(order.r, 2, FALSE), LAMBDA unknown :
    Bind(Encoding(read_u8(unknown.r)), LAMBDA encoding :
    Bind(read_u8(encoding.r), LAMBDA version :
    Bind(read_u16(version.r), LAMBDA num_blocks :
    Bind(read(num_blocks.r, 2, FALSE), LAMBDA unknown2 :
    Bind(read_u32(unknown2.r), LAMBDA file_size :
    Bind(read(file_size.r, 10, FALSE), LAMBDA padding :
    WithVal(padding, [encoding |-> encoding.val, version |-> version.val,
                      num_blocks |-> num_blocks.val, file_size |-> file_size.val]))))))))))

\* lms.py:39-43
CharSize(encoding) ==
    CASE encoding = Encoding_UTF8 -> 1 [] encoding = Encoding_UTF16 -> 2 [] encoding = Encoding_UTF32 -> 4

EncodingName(encoding) ==
    CASE encoding = Encoding_UTF8 -> "utf-8" [] encoding = Encoding_UTF16 -> "utf-16"
      [] encoding = Encoding_UTF32 -> "utf-32"

\* lms.py:38-45
read_encoded_string(reader, encoding, size) ==
    read_string(reader, EncodingName(encoding), size, CharSize(encoding))

\* lms.py:49-52
Group(reader) ==
    Bind(read_u32(reader), LAMBDA label_count :
    Bind(read_u32(label_count.r), LAMBDA offset :
    WithVal(offset, [label_count |-> label_count.val, offset |-> offset.val])))

RECURSIVE Groups(_, _)
\* lms.py:65
Groups(reader, group_count) ==
    IF group_count <= 0 THEN Ret(reader, <<>>, "")
    ELSE Bind(Group(reader), LAMBDA o : Prepend(o.val, Groups(o.r, group_count - 1)))

\* lms.py:54-58
Label(reader) ==
    Bind(read_u8(reader), LAMBDA length :
    Bind(read_string(length.r, "utf-8", length.val, 1), LAMBDA name :
    Bind(read_u32(name.r), LAMBDA idx :
    WithVal(idx, [name |-> name.val, idx |-> idx.val]))))

RECURSIVE InsertByIdx(_, _)
\* label put after the labels of sorted whose idx is not larger: the sort is stable
InsertByIdx(sorted, label) ==
    IF sorted = <<>> \/ sorted[Len(sorted)].idx <= label.idx THEN Append(sorted, label)
    ELSE Append(InsertByIdx(SubSeq(sorted, 1, Len(sorted) - 1), label), sorted[Len(sorted)])

RECURSIVE SortFrom(_, _)
SortFrom(labels, sorted) ==
    IF labels = <<>> THEN sorted
    ELSE SortFrom(Tail(labels), InsertByIdx(sorted, Head(labels)))

\* a sort that leaves the labels in the order they were read in
LabelsSort_FileOrder(labels) == labels

\* lms.py:74: labels.sort(key=lambda k: k.idx)
LabelsSort(labels) == SortFrom(labels, <<>>)

\* the state of a LabelBlock constructor that has not been entered yet
LblCall(reader, encoding) ==
    [pc |-> "call", err |-> "", reader |-> reader, encoding |-> encoding, start |-> 0,
     groups |-> <<>>, g |-> 0, n |-> 0, labels |-> <<>>]

LblRaise(s, o) == [s EXCEPT !.pc = "raise", !.err = o.err, !.reader = o.r]

\* lms.py:61-67
LblGotGroups(s, o) ==
    IF o.err # "" THEN LblRaise(s, o)
    ELSE [s EXCEPT !.pc = "group", !.reader = o.r, !.groups = o.val]

LblEnter(s) ==
    LblGotGroups([s EXCEPT !.start = s.reader.position],
                 Bind(read_u32(s.reader), LAMBDA group_count : Groups(group_count.r, group_count.val)))

\* lms.py:68-69: the next group, if any, and the seek to its labels
LblGroup(s) ==
    IF s.g < Len(s.groups)
    THEN [s EXCEPT !.pc = "label", !.g = @ + 1, !.n = 0,
                   !.reader = seek(s.reader, s.start + s.groups[s.g + 1].offset, FALSE)]
    ELSE [s EXCEPT !.pc = "sort"]

\* lms.py:70-72: the next label of the group, if any
LblGotLabel(s, o) ==
    IF o.err # "" THEN LblRaise(s, o)
    ELSE [s EXCEPT !.reader = o.r, !.n = @ + 1, !.labels = Append(@, o.val)]

LblLabel(s) ==
    IF s.n < s.groups[s.g].label_count THEN LblGotLabel(s, Label(s.reader))
    ELSE [s EXCEPT !.pc = "group"]

\* lms.py:74
LblSort(s) == [s EXCEPT !.pc = "done", !.labels = LabelsSort(@)]

LblStep(s) ==
    CASE s.pc = "call"  -> LblEnter(s)
      [] s.pc = "group" -> LblGroup(s)
      [] s.pc = "label" -> LblLabel(s)
      [] s.pc = "sort"  -> LblSort(s)
      [] OTHER          -> s

RECURSIVE LblRun(_)
LblRun(s) == IF s.pc \in {"done", "raise"} THEN s ELSE LblRun(LblStep(s))

\* LabelBlock(reader, encoding), lms.py:60-74; the value is the list of labels
LabelBlock(reader, encoding) ==
    LET s == LblRun(LblCall(reader, encoding))
    IN  Ret(s.reader, IF s.pc = "done" THEN s.labels ELSE <<>>, s.err)

(* Label blocks to decode. *)

\* the bytes of a label: its length, its name, its index
LabelBytes(label, byte_order) ==
    <<Len(label.name)>> \o label.name \o PackUnsigned(label.idx, 4, byte_order)

LabelsBytes(labels, byte_order) ==
    Concat([k \in 1..Len(labels) |-> LabelBytes(labels[k], byte_order)])

\* a label block of one group
BuildLabelBlock1(labels, byte_order) ==
    PackUnsigned(1, 4, byte_order)
        \o PackUnsigned(Len(labels), 4, byte_order) \o PackUnsigned(12, 4, byte_order)
        \o LabelsBytes(labels, byte_order)

\* a label block of two groups; swapped, the labels of the second group come
\* first in the file
BuildLabelBlock2(first, second, swapped, byte_order) ==
    LET a == LabelsBytes(first, byte_order)
        b == LabelsBytes(second, byte_order)
    IN  PackUnsigned(2, 4, byte_order)
            \o PackUnsigned(Len(first), 4, byte_order)
            \o PackUnsigned(IF swapped THEN 20 + Len(b) ELSE 20, 4, byte_order)
            \o PackUnsigned(Len(second), 4, byte_order)
            \o PackUnsigned(IF swapped THEN 20 ELSE 20 + Len(a), 4, byte_order)
            \o (IF swapped THEN b \o a ELSE a \o b)

LblLabels ==
    {[name |-> <<65>>, idx |-> 0], [name |-> <<66>>, idx |-> 1],
     [name |-> <<67, 67>>, idx |-> 2], [name |-> <<65>>, idx |-> 1]}

LblLists == SeqsUpTo(LblLabels, MaxLabels)

LblWellFormed(byte_order) ==
    {BuildLabelBlock1(labels, byte_order) : labels \in LblLists}
        \cup UNION {{BuildLabelBlock2(SubSeq(labels, 1, k), SubSeq(labels, k + 1, Len(labels)),
                                      swapped, byte_order) :
                        k \in 0..Len(labels), swapped \in BOOLEAN} : labels \in LblLists}

\* blocks that end early, and blocks that declare more than they hold
LblMalformed(byte_order) ==
    LET base == BuildLabelBlock1(<<[name |-> <<65>>, idx |-> 1], [name |-> <<66>>, idx |-> 0]>>,
                                 byte_order)
    IN  {SubSeq(base, 1, n) : n \in 0..(Len(base) - 1)}
            \cup {Patched(base, k, 3) : k \in {0, 3, 4, 7, 8, 11, 12}}

LblInputs ==
    UNION {{[BinaryReader(stream) EXCEPT !.byte_order = byte_order] :
                stream \in LblWellFormed(byte_order) \cup LblMalformed(byte_order)} :
           byte_order \in {"little", "big"}}

LblInit == lbl \in {LblCall(reader, Encoding_UTF8) : reader \in LblInputs}

LabelBlock_enter ==
    /\ lbl.pc = "call"
    /\ lbl' = LblEnter(lbl)
    /\ UNCHANGED <<src, yaz, sarc, szs, byml, rs, msbp, msbt>>

LabelBlock_group ==
    /\ lbl.pc = "group"
    /\ lbl' = LblGroup(lbl)
    /\ UNCHANGED <<src, yaz, sarc, szs, byml, rs, msbp, msbt>>

LabelBlock_label ==
    /\ lbl.pc = "label"
    /\ lbl' = LblLabel(lbl)
    /\ UNCHANGED <<src, yaz, sarc, szs, byml, rs, msbp, msbt>>

LabelBlock_sort ==
    /\ lbl.pc = "sort"
    /\ lbl' = LblSort(lbl)
    /\ UNCHANGED <<src, yaz, sarc, szs, byml, rs, msbp, msbt>>

LblNext ==
    \/ LabelBlock_enter
    \/ LabelBlock_group
    \/ LabelBlock_label
    \/ LabelBlock_sort

LblIdle == LblCall(BinaryReader(<<>>), Encoding_UTF8)

----------------------------------------------------------------------------
(* msbp.py: the blocks of a project file and MSBP.__init__ *)

Text_MsgPrjBn == <<77, 115, 103, 80, 114, 106, 66, 110>>
Text_CLR1 == <<67, 76, 82, 49>>
Text_CLB1 == <<67, 76, 66, 49>>
Text_ATI2 == <<65, 84, 73, 50>>
Text_ALB1 == <<65, 76, 66, 49>>
Text_ALI2 == <<65, 76, 73, 50>>
Text_TGG2 == <<84, 71, 71, 50>>
Text_TAG2 == <<84, 65, 71, 50>>
Text_TGP2 == <<84, 71, 80, 50>>
Text_TGL2 == <<84, 71, 76, 50>>
Text_SYL3 == <<83, 89, 76, 51>>
Text_SLB1 == <<83, 76, 66, 49>>
Text_CTI1 == <<67, 84, 73, 49>>

\* f"{c:02x}"
HexDigit(d) == IF d < 10 THEN 48 + d ELSE 87 + d
Hex02(c) == <<HexDigit(c \div 16), HexDigit(c % 16)>>

RECURSIVE Item(_, _, _, _)
RECURSIVE ItemsAt(_, _, _, _, _)
RECURSIVE Items(_, _, _, _)

\* one element of a block's list, read at the cursor; start is the position at
\* which the block's payload starts
Item(kind, reader, encoding, start) ==
    CASE kind = "color" ->     \* msbp.py:15-16
           Bind(read_u8s(reader, 4), LAMBDA color :
           WithVal(color, <<48, 120>> \o Concat([k \in 1..4 |-> Hex02(color.val[k])])))
      [] kind = "attr" ->      \* msbp.py:28-32
           Bind(read_u8(reader), LAMBDA attr_type :
           Bind(read_u8(attr_type.r), LAMBDA padding :
           Bind(read_u16(padding.r), LAMBDA attr_idx :
           Bind(read_u32(attr_idx.r), LAMBDA attr_offset :
           WithVal(attr_offset, <<attr_type.val, attr_idx.val, attr_offset.val>>)))))
      [] kind = "attr_list" -> \* msbp.py:46-52
           Bind(read_u32(reader), LAMBDA item_count :
           Bind(read_u32s(item_count.r, item_count.val), LAMBDA name_offsets :
           ItemsAt("name", name_offsets.r, encoding, start, name_offsets.val)))
      [] kind = "group" ->     \* msbp.py:68-72
           Bind(read_u16(reader), LAMBDA group_idx :
           Bind(read_u16(group_idx.r), LAMBDA tag_count :
           Bind(read_u16s(tag_count.r, tag_count.val), LAMBDA tag_indices :
           Bind(read_encoded_string(tag_indices.r, encoding, -1), LAMBDA group_name :
           WithVal(group_name, <<group_idx.val, group_name.val, tag_indices.val>>)))))
      [] kind = "tag" ->       \* msbp.py:87-90
           Bind(read_u16(reader), LAMBDA param_count :
           Bind(read_u16s(param_count.r, param_count.val), LAMBDA params :
           Bind(read_encoded_string(params.r, encoding, -1), LAMBDA tag_name :
           WithVal(tag_name, <<tag_name.val, params.val>>))))
      [] kind = "param" ->     \* msbp.py:105-114
           Bind(read_u8(reader), LAMBDA param_type :
           IF param_type.val = ParamType_NULL
           THEN Bind(read_u8(param_type.r), LAMBDA padding :
                Bind(read_u16(padding.r), LAMBDA item_count :
                Bind(read_u16s(item_count.r, item_count.val), LAMBDA items :
                Bind(read_encoded_string(items.r, encoding, -1), LAMBDA param_name :
                WithVal(param_name, <<param_type.val, param_name.val, items.val>>)))))
           ELSE Bind(read_encoded_string(param_type.r, encoding, -1), LAMBDA param_name :
                WithVal(param_name, <<param_type.val, param_name.val>>)))
      [] kind = "name" ->      \* msbp.py:129, 158
           read_encoded_string(reader, encoding, -1)
      [] kind = "style" ->     \* msbp.py:140-144; BinaryReader has no attribute read_i32
           Bind(read_u32(reader), LAMBDA region_width :
           Bind(read_u32(region_width.r), LAMBDA line_num :
           Bind(read_u32(line_num.r), LAMBDA font_idx :
           IF "read_i32" \in BinaryReaderAttrs
           THEN Bind(read_s32(font_idx.r), LAMBDA base_color_idx :
                WithVal(base_color_idx, <<region_width.val, line_num.val, font_idx.val,
                                          base_color_idx.val>>))
           ELSE Ret(font_idx.r, <<>>, "AttributeError"))))

\* for offset in offsets: reader.seek(start + offset), then one element
ItemsAt(kind, reader, encoding, start, offsets) ==
    IF offsets = <<>> THEN Ret(reader, <<>>, "")
    ELSE Bind(Item(kind, seek(reader, start + Head(offsets), FALSE), encoding, start), LAMBDA o :
              Prepend(o.val, ItemsAt(kind, o.r, encoding, start, Tail(offsets))))

\* for _ in range(count): one element, each where the one before it ended
Items(kind, reader, encoding, count) ==
    IF count <= 0 THEN Ret(reader, <<>>, "")
    ELSE Bind(Item(kind, reader, encoding, 0), LAMBDA o :
              Prepend(o.val, Items(kind, o.r, encoding, count - 1)))

\* msbp.py:9-17; the value is colors
CLR1(reader, encoding) ==
    Bind(read_u32(reader), LAMBDA color_count : Items("color", color_count.r, encoding, color_count.val))

\* msbp.py:20-32; the value is attrs
ATI2(reader, encoding) ==
    Bind(read_u32(reader), LAMBDA attr_count : Items("attr", attr_count.r, encoding, attr_count.val))

\* msbp.py:35-53; the value is attr_lists
ALI2(reader, encoding) ==
    Bind(read_u32(reader), LAMBDA list_count :
    Bind(read_u32s(list_count.r, list_count.val), LAMBDA offsets :
    ItemsAt("attr_list", offsets.r, encoding, reader.position, offsets.val)))

\* msbp.py:59-66, 78-85, 96-103, 120-127: a u16 count, a u16 of padding, the
\* u32 offsets, and the element at each offset
OffsetTable16(kind, reader, encoding) ==
    Bind(read_u16(reader), LAMBDA count :
    Bind(read_u16(count.r), LAMBDA padding :
    Bind(read_u32s(padding.r, count.val), LAMBDA offsets :
    ItemsAt(kind, offsets.r, encoding, reader.position, offsets.val))))

\* msbp.py:56-72; the value is groups
TGG2(reader, encoding) == OffsetTable16("group", reader, encoding)
\* msbp.py:75-90; the value is tags
TAG2(reader, encoding) == OffsetTable16("tag", reader, encoding)
\* msbp.py:93-114; the value is params
TGP2(reader, encoding) == OffsetTable16("param", reader, encoding)
\* msbp.py:117-130; the value is items
TGL2(reader, encoding) == OffsetTable16("name", reader, encoding)

\* msbp.py:133-144; the value is styles
SYL3(reader, encoding) ==
    Bind(read_u32(reader), LAMBDA style_count : Items("style", style_count.r, encoding, style_count.val))

\* msbp.py:147-158; the value is filenames
CTI1(reader, encoding) ==
    Bind(read_u32(reader), LAMBDA filename_count :
    Bind(read_u32s(filename_count.r, filename_count.val), LAMBDA offsets :
    ItemsAt("name", offsets.r, encoding, reader.position, offsets.val)))

\* msbp.py:165-171
MsbpCtors ==
    {Text_CLR1, Text_ATI2, Text_ALI2, Text_TGG2, Text_TAG2, Text_TGP2, Text_TGL2, Text_SYL3,
     Text_CTI1, Text_CLB1, Text_ALB1, Text_SLB1}

\* msbp.py:181: ctors[signature](reader, header.encoding)
MsbpCtor(signature, reader, encoding) ==
    CASE signature = Text_CLR1 -> CLR1(reader, encoding)
      [] signature = Text_ATI2 -> ATI2(reader, encoding)
      [] signature = Text_ALI2 -> ALI2(reader, encoding)
      [] signature = Text_TGG2 -> TGG2(reader, encoding)
      [] signature = Text_TAG2 -> TAG2(reader, encoding)
      [] signature = Text_TGP2 -> TGP2(reader, encoding)
      [] signature = Text_TGL2 -> TGL2(reader, encoding)
      [] signature = Text_SYL3 -> SYL3(reader, encoding)
      [] signature = Text_CTI1 -> CTI1(reader, encoding)
      [] signature \in {Text_CLB1, Text_ALB1, Text_SLB1} -> LabelBlock(reader, encoding)

\* msbp.py:175-178, msbt.py:88-91: the head of a block; the value is
\* [block_start, signature, block_size]
BlockHead(reader) ==
    Bind(read_string(reader, "ascii", 4, 1), LAMBDA signature :
    Bind(read_u32(signature.r), LAMBDA block_size :
    Bind(read(block_size.r, 8, FALSE), LAMBDA padding :
    WithVal(padding, [block_start |-> reader.position, signature |-> signature.val,
                      block_size |-> block_size.val]))))

\* the seek of msbp.py:186 without the align of msbp.py:187
NextBlock_Unaligned(reader, head) == seek(reader, head.block_start + head.block_size + 16, FALSE)

\* msbp.py:186-187, msbt.py:99-100
NextBlock(reader, head) == align(seek(reader, head.block_start + head.block_size + 16, FALSE), 16)

(* The sections of data, assembled from the blocks. *)

Val(val, err) == [val |-> val, err |-> err]

\* v, unless it raised, followed by F(v)
Then(v, F(_)) == IF v.err # "" THEN v ELSE F(v)

EmptyDict == PyDict(<<>>, <<>>)

RECURSIVE LabelMap_KeepFirst(_, _, _)
\* LabelMap, but a name that is in d already keeps its value
LabelMap_KeepFirst(labels, values, d) ==
    IF labels = <<>> THEN Val(d, "")
    ELSE IF ~PyIndexOK(values, Head(labels).idx) THEN Val(d, "IndexError")
    ELSE LabelMap_KeepFirst(Tail(labels), values,
                            IF Head(labels).name \in DOMAIN d.map THEN d
                            ELSE PyDictPut(d, Head(labels).name, PyGet(values, Head(labels).idx)))

RECURSIVE LabelMap(_, _, _)
\* msbp.py:196-197, 229-230, msbt.py:106-107: for label in labels:
\* d[label.name] = values[label.idx]
LabelMap(labels, values, d) ==
    IF labels = <<>> THEN Val(d, "")
    ELSE IF ~PyIndexOK(values, Head(labels).idx) THEN Val(d, "IndexError")
    ELSE LabelMap(Tail(labels), values,
                  PyDictPut(d, Head(labels).name, PyGet(values, Head(labels).idx)))

RECURSIVE TagParams(_, _)
\* msbp.py:217-220
TagParams(tag_params, params) ==
    IF tag_params = <<>> THEN Val(<<>>, "")
    ELSE IF ~PyIndexOK(params, Head(tag_params)) THEN Val(<<>>, "IndexError")
    ELSE IF Len(PyGet(params, Head(tag_params))) # 2 THEN Val(<<>>, "ValueError")
    ELSE Then(TagParams(Tail(tag_params), params), LAMBDA rest :
         Val(<<[name |-> PyGet(params, Head(tag_params))[2],
                type |-> PyGet(params, Head(tag_params))[1]]>> \o rest.val, ""))

RECURSIVE GroupTags(_, _, _)
\* msbp.py:214-221
GroupTags(group_tags, tags, params) ==
    IF group_tags = <<>> THEN Val(<<>>, "")
    ELSE IF ~PyIndexOK(tags, Head(group_tags)) THEN Val(<<>>, "IndexError")
    ELSE Then(TagParams(PyGet(tags, Head(group_tags))[2], params), LAMBDA tag_params :
         Then(GroupTags(Tail(group_tags), tags, params), LAMBDA rest :
         Val(<<[name |-> PyGet(tags, Head(group_tags))[1], params |-> tag_params.val]>> \o rest.val,
             "")))

RECURSIVE TagCatalog(_, _, _, _)
\* msbp.py:212-222: a group is stored (line 222) once its tags are listed; when
\* listing them raised, d holds the groups before it
TagCatalog(groups, tags, params, d) ==
    IF groups = <<>> THEN Val(d, "")
    ELSE LET group_tags == GroupTags(Head(groups)[3], tags, params)
         IN  IF group_tags.err # "" THEN Val(d, group_tags.err)
             ELSE TagCatalog(Tail(groups), tags, params,
                             PyDictPut(d, Head(groups)[1],
                                       [name |-> Head(groups)[2], tags |-> group_tags.val]))

\* all(block in self.blocks for block in names)
AllIn(names, blocks) == names \subseteq DOMAIN blocks

\* a project file that has not been decoded yet
MsbpCall(stream) ==
    [pc |-> "call", err |-> "", stream |-> stream, reader |-> BinaryReader(<<>>),
     header |-> [encoding |-> 0, version |-> 0, num_blocks |-> 0, file_size |-> 0],
     blocks |-> <<>>, i |-> 0, data |-> EmptyDict]

MsbpRaise(s, r, e) == [s EXCEPT !.pc = "raise", !.err = e, !.reader = r]

\* msbp.py:163-164, 173
MsbpGotHeader(s, o) ==
    IF o.err # "" THEN MsbpRaise(s, o.r, o.err)
    ELSE [s EXCEPT !.pc = "block", !.reader = o.r, !.header = o.val]

MsbpEnter(s) == MsbpGotHeader(s, Header(BinaryReader(s.stream), Text_MsgPrjBn))

\* msbp.py:180-187
MsbpGotBlock(s, head, o) ==
    IF o.err # "" THEN MsbpRaise(s, o.r, o.err)
    ELSE [s EXCEPT !.reader = NextBlock(o.r, head), !.i = @ + 1,
                   !.blocks = DictSet(@, head.signature, o.val)]

MsbpGotHead(s, o) ==
    IF o.err # "" THEN MsbpRaise(s, o.r, o.err)
    ELSE IF o.val.signature \notin MsbpCtors THEN MsbpRaise(s, o.r, "NotImplementedError")
    ELSE MsbpGotBlock(s, o.val, MsbpCtor(o.val.signature, o.r, s.header.encoding))

\* msbp.py:174-187: one block, if any is left; then msbp.py:189
MsbpBlock(s) ==
    IF s.i < s.header.num_blocks THEN MsbpGotHead(s, BlockHead(s.reader))
    ELSE [s EXCEPT !.pc = "colors"]

\* data[section] is the dict that the loop filled; when the loop raised, it
\* holds what was stored before (msbp.py:194, 207, 227 put it into data first)
MsbpSection(s, section, v, pc) ==
    IF v.err # ""
    THEN [MsbpRaise(s, s.reader, v.err) EXCEPT !.data = PyDictPut(@, section, v.val)]
    ELSE [s EXCEPT !.pc = pc, !.data = PyDictPut(@, section, v.val)]

\* msbp.py:191-197
MsbpColors(s) ==
    IF AllIn({Text_CLR1, Text_CLB1}, s.blocks)
    THEN MsbpSection(s, "colors", LabelMap(s.blocks[Text_CLB1], s.blocks[Text_CLR1], EmptyDict),
                     "attributes")
    ELSE [s EXCEPT !.pc = "attributes"]

\* msbp.py:199-202
MsbpAttributes(s) ==
    IF AllIn({Text_ATI2, Text_ALB1, Text_ALI2}, s.blocks)
    THEN MsbpRaise(s, s.reader, "NotImplementedError")
    ELSE [s EXCEPT !.pc = "tags"]

\* msbp.py:204-222
MsbpTags(s) ==
    IF AllIn({Text_TGG2, Text_TAG2, Text_TGP2, Text_TGL2}, s.blocks)
    THEN MsbpSection(s, "tags", TagCatalog(s.blocks[Text_TGG2], s.blocks[Text_TAG2],
                                           s.blocks[Text_TGP2], EmptyDict), "styles")
    ELSE [s EXCEPT !.pc = "styles"]

\* msbp.py:224-230
MsbpStyles(s) ==
    IF AllIn({Text_SYL3, Text_SLB1}, s.blocks)
    THEN MsbpSection(s, "styles", LabelMap(s.blocks[Text_SLB1], s.blocks[Text_SYL3], EmptyDict),
                     "filenames")
    ELSE [s EXCEPT !.pc = "filenames"]

\* msbp.py:232-234
MsbpFilenames(s) ==
    IF Text_CTI1 \in DOMAIN s.blocks
    THEN [s EXCEPT !.pc = "done", !.data = PyDictPut(@, "filenames", s.blocks[Text_CTI1])]
    ELSE [s EXCEPT !.pc = "done"]

MsbpStep(s) ==
    CASE s.pc = "call"       -> MsbpEnter(s)
      [] s.pc = "block"      -> MsbpBlock(s)
      [] s.pc = "colors"     -> MsbpColors(s)
      [] s.pc = "attributes" -> MsbpAttributes(s)
      [] s.pc = "tags"       -> MsbpTags(s)
      [] s.pc = "styles"     -> MsbpStyles(s)
      [] s.pc = "filenames"  -> MsbpFilenames(s)
      [] OTHER               -> s

RECURSIVE MsbpRun(_)
MsbpRun(s) == IF s.pc \in {"done", "raise"} THEN s ELSE MsbpRun(MsbpStep(s))

\* MSBP(stream), msbp.py:162-234
MSBP(stream) == MsbpRun(MsbpCall(stream))

----------------------------------------------------------------------------
(* msbt.py: the blocks of a message file and MSBT.__init__ *)

Text_MsgStdBn == <<77, 115, 103, 83, 116, 100, 66, 110>>
Text_LBL1 == <<76, 66, 76, 49>>
Text_TXT2 == <<84, 88, 84, 50>>
Text_replace == <<114, 101, 112, 108, 97, 99, 101>>
Text_rt == <<114, 116>>
Text_percent == <<112, 101, 114, 99, 101, 110, 116>>
Text_index == <<105, 110, 100, 101, 120>>
Text_None == <<78, 111, 110, 101>>

\* util.py:112-113
read_f32(r) ==
    Bind(read(r, 4, FALSE), LAMBDA o : WithVal(o, PyPacked("f", o.val, r.byte_order)))

RECURSIVE Digits(_)
\* the decimal digits of a natural number
Digits(n) == IF n < 10 THEN <<48 + n>> ELSE Append(Digits(n \div 10), 48 + (n % 10))

\* f"{val}" for an int
IntText(n) == IF n < 0 THEN <<45>> \o Digits(-n) ELSE Digits(n)

\* the bytes of a packed float, most significant first
FloatBytes(val) == IF val.byte_order = "big" THEN val.v ELSE Reverse(val.v)
FloatExponent(b) == (b[1] % 128) * 2 + (b[2] \div 128)
FloatFraction(b) == (b[2] % 128) * 65536 + b[3] * 256 + b[4]

\* the float is zero, or a whole number below 2^24
FloatIsWhole(b) ==
    \/ FloatExponent(b) = 0 /\ FloatFraction(b) = 0
    \/ /\ FloatExponent(b) \in 127..150
       /\ (8388608 + FloatFraction(b)) % (2 ^ (150 - FloatExponent(b))) = 0

\* f"{val}" for a float: the text of a whole number; any other float is kept
\* as the one packed value
FloatText(val) ==
    LET b == FloatBytes(val)
    IN  IF ~FloatIsWhole(b) THEN <<val>>
        ELSE (IF b[1] >= 128 THEN <<45>> ELSE <<>>)
                \o (IF FloatExponent(b) = 0 THEN <<48>>
                    ELSE Digits((8388608 + FloatFraction(b)) \div (2 ^ (150 - FloatExponent(b)))))
                \o <<46, 48>>

\* msbt.py:21-26: the parameters written into the tags 0, 2 and 3 of group 0
BuiltinParams ==
    <<<<0, <<[name |-> Text_replace, type |-> ParamType_U16],
             [name |-> Text_rt, type |-> ParamType_STRING]>>>>,
      <<2, <<[name |-> Text_percent, type |-> ParamType_U16]>>>>,
      <<3, <<[name |-> Text_index, type |-> ParamType_I16]>>>>>>

\* an assignment that adds the parameters to those the tag has
SetParams_Extend(tags, tag_idx, params) ==
    [tags EXCEPT !.map[0].tags[tag_idx + 1].params = @ \o params]

\* tags[0]["tags"][tag_idx]["params"] = params
SetParams(tags, tag_idx, params) ==
    [tags EXCEPT !.map[0].tags[tag_idx + 1].params = params]

RECURSIVE PatchTags(_, _, _)
\* msbt.py:21-26, one assignment after the other; the value is tags after the
\* assignments that were made, writes their number
PatchTags(tags, todo, writes) ==
    IF todo = <<>> THEN [val |-> tags, err |-> "", writes |-> writes]
    ELSE IF 0 \notin DOMAIN tags.map THEN [val |-> tags, err |-> "KeyError", writes |-> writes]
    ELSE IF ~PyIndexOK(tags.map[0].tags, Head(todo)[1])
         THEN [val |-> tags, err |-> "IndexError", writes |-> writes]
    ELSE PatchTags(SetParams(tags, Head(todo)[1], Head(todo)[2]), Tail(todo), writes + 1)

\* msbt.py:20-26 on project_data.data; the value is the data after it
Patch(data) ==
    IF "tags" \notin DOMAIN data.map THEN [val |-> data, err |-> "KeyError", writes |-> 0]
    ELSE LET p == PatchTags(data.map["tags"], BuiltinParams, 0)
         IN  [val |-> [data EXCEPT !.map["tags"] = p.val], err |-> p.err, writes |-> p.writes]

\* msbt.py:55-63: the value of one parameter, by its type
ParamValue(reader, encoding, type) ==
    CASE type = 0 -> read_u8(reader)
      [] type = 1 -> read_u16(reader)
      [] type = 2 -> read_s16(reader)
      [] type = 5 -> read_u32(reader)
      [] type = 6 -> read_f32(reader)
      [] type = 8 -> Bind(read_u16(reader), LAMBDA size :
                          read_encoded_string(size.r, encoding, size.val))
      [] type = 9 -> Ret(reader, PyNone, "")
      [] OTHER    -> Ret(reader, <<>>, "KeyError")

RECURSIVE ParamValues(_, _, _)
\* msbt.py:53-63; the value is the list of (name, val, type)
ParamValues(reader, encoding, params) ==
    IF params = <<>> THEN Ret(reader, <<>>, "")
    ELSE Bind(ParamValue(reader, encoding, Head(params).type), LAMBDA o :
              Prepend(<<Head(params).name, o.val, Head(params).type>>,
                      ParamValues(o.r, encoding, Tail(params))))

\* msbt.py:69
FormattedVal(val, type) ==
    CASE type = 8 -> <<39>> \o val \o <<39>>
      [] type = 9 -> Text_None
      [] type = 6 -> FloatText(val)
      [] OTHER    -> IntText(val)

RECURSIVE Join(_)
\* ", ".join(parts)
Join(parts) ==
    IF parts = <<>> THEN <<>>
    ELSE IF Len(parts) = 1 THEN parts[1]
    ELSE parts[1] \o <<44, 32>> \o Join(Tail(parts))

\* msbt.py:65-73: the marker of a tag
Marker(group_name, tag_name, param_count, params) ==
    LET out_params == [k \in 1..Len(params) |->
                          params[k][1] \o <<58, 32>> \o FormattedVal(params[k][2], params[k][3])]
        out_parts == <<group_name, tag_name>>
                        \o (IF param_count > 0 THEN <<<<40>> \o Join(out_params) \o <<41>>>>
                            ELSE <<>>)
    IN  <<60>> \o Join(out_parts) \o <<62>>

\* msbt.py:47-73: a tag, read after its control character
ReadTag(reader, encoding, tags) ==
    Bind(read_u16(reader), LAMBDA group_idx :
    Bind(read_u16(group_idx.r), LAMBDA type_idx :
    IF group_idx.val \notin DOMAIN tags.map THEN Ret(type_idx.r, <<>>, "KeyError")
    ELSE IF ~PyIndexOK(tags.map[group_idx.val].tags, type_idx.val)
         THEN Ret(type_idx.r, <<>>, "IndexError")
    ELSE Bind(read_u16(type_idx.r), LAMBDA param_count :
         Bind(ParamValues(param_count.r, encoding,
                          PyGet(tags.map[group_idx.val].tags, type_idx.val).params), LAMBDA params :
         WithVal(params, Marker(tags.map[group_idx.val].name,
                                PyGet(tags.map[group_idx.val].tags, type_idx.val).name,
                                param_count.val, params.val))))))

\* msbt.py:45: reader.read(char_size).decode(encoding_name)
ReadChar(reader, encoding) ==
    Bind(read(reader, CharSize(encoding), FALSE), LAMBDA o :
         Decoding(o.r, Decode(o.val, EncodingName(encoding))))

RECURSIVE TagString(_, _, _, _)
\* msbt.py:44-77, with out the text read so far
TagString(reader, encoding, tags, out) ==
    Bind(ReadChar(reader, encoding), LAMBDA char :
         IF char.val = <<0>> THEN WithVal(char, out)
         ELSE IF char.val = <<14>>
              THEN Bind(ReadTag(char.r, encoding, tags), LAMBDA tag :
                        TagString(tag.r, encoding, tags, out \o tag.val))
         ELSE TagString(char.r, encoding, tags, out \o char.val))

\* msbt.py:37-77
read_tag_string(reader, encoding, tags) == TagString(reader, encoding, tags, <<>>)

RECURSIVE Messages(_, _, _, _, _)
\* msbt.py:31-35
Messages(reader, encoding, tags, start, offsets) ==
    IF offsets = <<>> THEN Ret(reader, <<>>, "")
    ELSE Bind(read_tag_string(seek(reader, start + Head(offsets), FALSE), encoding, tags),
              LAMBDA o : Prepend(o.val, Messages(o.r, encoding, tags, start, Tail(offsets))))

\* msbt.py:28-35; the value is messages
TXT2Messages(reader, encoding, tags) ==
    Bind(read_u32(reader), LAMBDA message_count :
    Bind(read_u32s(message_count.r, message_count.val), LAMBDA offsets :
    Messages(offsets.r, encoding, tags, reader.position, offsets.val)))

\* msbt.py:84
MsbtCtors == {Text_LBL1, Text_TXT2}

\* a message file that has not been decoded yet; files are the message files
\* still to decode, n the number of those decoded, patched the number of
\* assignments made to the parameters of the project's tags
MsbtCall(stream, files, n, patched) ==
    [pc |-> "call", err |-> "", stream |-> stream, reader |-> BinaryReader(<<>>),
     header |-> [encoding |-> 0, version |-> 0, num_blocks |-> 0, file_size |-> 0],
     head |-> [block_start |-> 0, signature |-> <<>>, block_size |-> 0],
     blocks |-> <<>>, i |-> 0, data |-> EmptyDict,
     files |-> files, n |-> n, patched |-> patched]

MsbtRaise(s, r, e) == [s EXCEPT !.pc = "raise", !.err = e, !.reader = r]

\* msbt.py:82-83, 86
MsbtGotHeader(s, o) ==
    IF o.err # "" THEN MsbtRaise(s, o.r, o.err)
    ELSE [s EXCEPT !.pc = "block", !.reader = o.r, !.header = o.val]

MsbtEnter(s) == MsbtGotHeader(s, Header(BinaryReader(s.stream), Text_MsgStdBn))

\* msbt.py:94-100, for a block that was constructed
MsbtGotBlock(s, head, o) ==
    IF o.err # "" THEN MsbtRaise(s, o.r, o.err)
    ELSE [s EXCEPT !.pc = "block", !.reader = NextBlock(o.r, head), !.i = @ + 1,
                   !.blocks = DictSet(@, head.signature, o.val)]

\* msbt.py:93-97; Log.error (util.py:9-11) ends the process: SystemExit; the
\* constructor of TXT2 is entered here and goes on in two more steps
MsbtGotHead(s, o) ==
    IF o.err # "" THEN MsbtRaise(s, o.r, o.err)
    ELSE IF o.val.signature \notin MsbtCtors THEN MsbtRaise(s, o.r, "SystemExit")
    ELSE IF o.val.signature = Text_TXT2 THEN [s EXCEPT !.pc = "patch", !.reader = o.r, !.head = o.val]
    ELSE MsbtGotBlock(s, o.val, LabelBlock(o.r, s.header.encoding))

\* msbt.py:87-100: one block, if any is left; then msbt.py:102
MsbtBlock(s) ==
    IF s.i < s.header.num_blocks THEN MsbtGotHead(s, BlockHead(s.reader))
    ELSE [s EXCEPT !.pc = "data"]

\* msbt.py:20-26: s and the project's data after the assignments
MsbtGotPatch(s, p) ==
    [s |-> IF p.err # "" THEN [MsbtRaise(s, s.reader, p.err) EXCEPT !.patched = @ + p.writes]
           ELSE [s EXCEPT !.pc = "messages", !.patched = @ + p.writes],
     project |-> p.val]

TXT2Patch(s, project) == MsbtGotPatch(s, Patch(project))

\* msbt.py:28-35, then msbt.py:95, 99-100
TXT2Read(s, project) ==
    MsbtGotBlock(s, s.head, TXT2Messages(s.reader, s.header.encoding, project.map["tags"]))

\* msbt.py:102-107; when the loop raised, data holds what was stored before
MsbtGotData(s, v) ==
    IF v.err # "" THEN [MsbtRaise(s, s.reader, v.err) EXCEPT !.data = v.val]
    ELSE [s EXCEPT !.pc = "done", !.data = v.val]

MsbtData(s) ==
    IF AllIn({Text_LBL1, Text_TXT2}, s.blocks)
    THEN MsbtGotData(s, LabelMap(s.blocks[Text_LBL1], s.blocks[Text_TXT2], EmptyDict))
    ELSE [s EXCEPT !.pc = "done"]

\* one step of MSBT.__init__: the message file and the project's data after it
MsbtStep(s, project) ==
    CASE s.pc = "call"     -> [s |-> MsbtEnter(s), project |-> project]
      [] s.pc = "block"    -> [s |-> MsbtBlock(s), project |-> project]
      [] s.pc = "patch"    -> TXT2Patch(s, project)
      [] s.pc = "messages" -> [s |-> TXT2Read(s, project), project |-> project]
      [] s.pc = "data"     -> [s |-> MsbtData(s), project |-> project]
      [] OTHER             -> [s |-> s, project |-> project]

RECURSIVE MsbtRun(_)
MsbtRun(x) == IF x.s.pc \in {"done", "raise"} THEN x ELSE MsbtRun(MsbtStep(x.s, x.project))

\* MSBT(stream, project_data), msbt.py:81-107, for the data of project_data:
\* the message file and the project's data after it
MSBT(stream, project) == MsbtRun([s |-> MsbtCall(stream, <<>>, 0, 0), project |-> project])

----------------------------------------------------------------------------
(* batch_msbt.py:39-59: a project file decoded once, then the message files
   decoded one after the other against the project's data. *)

(* Project files and message files to decode. *)

U16(n, byte_order) == PackUnsigned(n, 2, byte_order)
U32(n, byte_order) == PackUnsigned(n, 4, byte_order)

\* a text in the encoding of the file, null-terminated
BuildName(text, encoding, byte_order) ==
    Concat([k \in 1..Len(text) |-> PackUnsigned(text[k], CharSize(encoding), byte_order)])
        \o Zeros(CharSize(encoding))

\* the offsets of the items of a table whose items start at offset first
TableOffsets(items, first, byte_order) ==
    Concat([k \in 1..Len(items) |->
               U32(first + Len(Concat(SubSeq(items, 1, k - 1))), byte_order)])

\* a u16 count, a u16 of padding, the offsets of the items, the items
BuildTable16(items, byte_order) ==
    U16(Len(items), byte_order) \o U16(0, byte_order)
        \o TableOffsets(items, 4 + 4 * Len(items), byte_order) \o Concat(items)

\* a u32 count, the offsets of the items, the items
BuildTable32(items, byte_order) ==
    U32(Len(items), byte_order)
        \o TableOffsets(items, 4 + 4 * Len(items), byte_order) \o Concat(items)

\* a block: its signature, its declared size, 8 bytes of padding, its payload,
\* and filler up to the next multiple of 16
BuildBlock(signature, declared, payload, byte_order) ==
    signature \o U32(declared, byte_order) \o Zeros(8) \o payload
        \o [k \in 1..((16 - (Len(payload) % 16)) % 16) |-> 43]

SizedBlock(signature, payload, byte_order) ==
    BuildBlock(signature, Len(payload), payload, byte_order)

\* a file: the header of lms.py:22-31 and the blocks
BuildFile(signature, byte_order, encoding, num_blocks, blocks) ==
    signature \o ByteOrderMark(byte_order) \o Zeros(2) \o <<encoding, 3>>
        \o U16(num_blocks, byte_order) \o Zeros(2) \o U32(0, byte_order) \o Zeros(10)
        \o Concat(blocks)

BuildProject(byte_order, encoding, blocks) ==
    BuildFile(Text_MsgPrjBn, byte_order, encoding, Len(blocks), blocks)

BuildMessages(byte_order, encoding, blocks) ==
    BuildFile(Text_MsgStdBn, byte_order, encoding, Len(blocks), blocks)

LabelA == [name |-> <<65>>, idx |-> 0]
LabelB == [name |-> <<66>>, idx |-> 1]

\* CLR1 of two colors, and CLB1 that names them, in file order B, A
Colors(bo) == SizedBlock(Text_CLR1, U32(2, bo) \o <<127, 255, 16, 10>> \o <<1, 2, 3, 4>>, bo)
ColorLabels(bo) == SizedBlock(Text_CLB1, BuildLabelBlock1(<<LabelB, LabelA>>, bo), bo)

\* SYL3 of count styles, and SLB1 of the given labels
Styles(count, bo) ==
    SizedBlock(Text_SYL3,
               U32(count, bo) \o Concat([k \in 1..count |->
                   U32(10 + k, bo) \o U32(2, bo) \o U32(3, bo) \o U32(4, bo)]), bo)
StyleLabels(labels, bo) == SizedBlock(Text_SLB1, BuildLabelBlock1(labels, bo), bo)

\* the four blocks of a tag catalog: groups of <<group_idx, name, tag indices>>,
\* tags of <<name, parameter indices>>, parameters of <<type, name>> or, typed
\* NULL, <<type, name, items>>
TagBlocks(groups, tags, params, bo, encoding) ==
    <<SizedBlock(Text_TGG2, BuildTable16([k \in 1..Len(groups) |->
          U16(groups[k][1], bo) \o U16(Len(groups[k][3]), bo)
              \o Concat([j \in 1..Len(groups[k][3]) |-> U16(groups[k][3][j], bo)])
              \o BuildName(groups[k][2], encoding, bo)], bo), bo),
      SizedBlock(Text_TAG2, BuildTable16([k \in 1..Len(tags) |->
          U16(Len(tags[k][2]), bo)
              \o Concat([j \in 1..Len(tags[k][2]) |-> U16(tags[k][2][j], bo)])
              \o BuildName(tags[k][1], encoding, bo)], bo), bo),
      SizedBlock(Text_TGP2, BuildTable16([k \in 1..Len(params) |->
          IF params[k][1] = ParamType_NULL
          THEN <<ParamType_NULL, 0>> \o U16(Len(params[k][3]), bo)
                   \o Concat([j \in 1..Len(params[k][3]) |-> U16(params[k][3][j], bo)])
                   \o BuildName(params[k][2], encoding, bo)
          ELSE <<params[k][1]>> \o BuildName(params[k][2], encoding, bo)], bo), bo),
      SizedBlock(Text_TGL2, BuildTable16(<<BuildName(<<120>>, encoding, bo)>>, bo), bo)>>

\* the parameters p (U8), q (STRING), and n (NULL, with two items)
ParamP == <<ParamType_U8, <<112>>>>
ParamQ == <<ParamType_STRING, <<113>>>>
ParamN == <<ParamType_NULL, <<110>>, <<0, 1>>>>

\* group 0, "G", of the tags "a" (p), "b" (none), "c" (p, q) and "d" (none)
FourTags == << <<<<97>>, <<0>>>>, <<<<98>>, <<>>>>, <<<<99>>, <<0, 1>>>>, <<<<100>>, <<>>>> >>
Catalog(bo, encoding) ==
    TagBlocks(<< <<0, <<71>>, <<0, 1, 2, 3>>>> >>, FourTags, <<ParamP, ParamQ>>, bo, encoding)

\* the same with a second group, 5, "H", of the tags "d" and "a"
CatalogTwoGroups(bo) ==
    TagBlocks(<< <<0, <<71>>, <<0, 1, 2, 3>>>>, <<5, <<72>>, <<3, 0>>>> >>, FourTags,
              <<ParamP, ParamQ>>, bo, Encoding_UTF8)

\* the same catalog with the tags of group 0 in the order "b", "a", "c", "d": the
\* project gives tag 0 of group 0 no parameter
CatalogReordered(bo) ==
    TagBlocks(<< <<0, <<71>>, <<1, 0, 2, 3>>>> >>, FourTags, <<ParamP, ParamQ>>, bo, Encoding_UTF8)

\* a catalog whose group 0 has the one tag "a"
CatalogOneTag(bo) ==
    TagBlocks(<< <<0, <<71>>, <<0>>>> >>, << <<<<97>>, <<0>>>> >>, <<ParamP>>, bo, Encoding_UTF8)

\* a catalog whose tag "c" has the NULL-typed parameter n
CatalogNull(bo) ==
    TagBlocks(<< <<0, <<71>>, <<0, 1, 2, 3>>>> >>,
              << <<<<97>>, <<0>>>>, <<<<98>>, <<>>>>, <<<<99>>, <<0, 1>>>>, <<<<100>>, <<>>>> >>,
              <<ParamP, ParamN>>, bo, Encoding_UTF8)

\* a catalog that holds the NULL-typed parameter n, which no tag uses
CatalogNullUnused(bo) ==
    TagBlocks(<< <<0, <<71>>, <<0, 1, 2, 3>>>> >>, FourTags, <<ParamP, ParamQ, ParamN>>, bo,
              Encoding_UTF8)

\* a catalog whose group names a tag that TAG2 does not hold
CatalogNoSuchTag(bo) ==
    TagBlocks(<< <<0, <<71>>, <<0, 7>>>> >>, FourTags, <<ParamP, ParamQ>>, bo, Encoding_UTF8)

Filenames(bo) ==
    SizedBlock(Text_CTI1, BuildTable32(<<BuildName(<<102>>, Encoding_UTF8, bo)>>, bo), bo)

\* the three blocks of the attributes
Attributes(bo) ==
    <<SizedBlock(Text_ATI2, U32(1, bo) \o <<1, 0>> \o U16(0, bo) \o U32(0, bo), bo),
      SizedBlock(Text_ALB1, BuildLabelBlock1(<<LabelA>>, bo), bo),
      SizedBlock(Text_ALI2, BuildTable32(<<U32(1, bo) \o U32(12, bo)
                                             \o BuildName(<<65>>, Encoding_UTF8, bo)>>, bo), bo)>>

\* project files of colors and of styles: either block of each pair, both, or
\* none, with labels whose indices are in range
ColorStyleProjects ==
    LET bo == "little"
    IN  {BuildProject(bo, Encoding_UTF8, colors \o styles) :
            colors \in {<<>>, <<Colors(bo)>>, <<ColorLabels(bo)>>, <<ColorLabels(bo), Colors(bo)>>},
            styles \in {<<>>, <<Styles(0, bo)>>, <<Styles(1, bo)>>, <<StyleLabels(<<>>, bo)>>,
                        <<StyleLabels(<<LabelA>>, bo)>>,
                        <<Styles(0, bo), StyleLabels(<<>>, bo)>>,
                        <<Styles(1, bo), StyleLabels(<<LabelA>>, bo)>>,
                        <<StyleLabels(<<LabelB, LabelA>>, bo), Styles(2, bo)>>}}

\* project files that decode, of every section, alone and together
ProjectsDecoded(bo) ==
    {BuildProject(bo, Encoding_UTF8, blocks) : blocks \in
        {<<>>, <<Colors(bo), ColorLabels(bo)>>,
         <<Filenames(bo)>>, <<Attributes(bo)[1], Attributes(bo)[3]>>,
         Catalog(bo, Encoding_UTF8), CatalogTwoGroups(bo), CatalogReordered(bo),
         CatalogOneTag(bo), CatalogNullUnused(bo), SubSeq(Catalog(bo, Encoding_UTF8), 1, 3),
         <<Colors(bo), ColorLabels(bo)>> \o Catalog(bo, Encoding_UTF8) \o <<Filenames(bo)>>}}

\* project files with a NULL-typed parameter in use, with names
\* of two or four bytes a character, with attributes, with an index out of range
ProjectsOther(bo) ==
    {BuildProject(bo, Encoding_UTF8, blocks) : blocks \in
        {CatalogNull(bo), CatalogNoSuchTag(bo), Attributes(bo),
         <<Colors(bo), SizedBlock(Text_CLB1, BuildLabelBlock1(<<[name |-> <<65>>, idx |-> 2]>>, bo), bo)>>,
         <<SizedBlock(<<88, 88, 88, 88>>, <<0, 0>>, bo)>>}}
        \cup {BuildProject(bo, Encoding_UTF16, Catalog(bo, Encoding_UTF16)),
              BuildProject(bo, Encoding_UTF32, Catalog(bo, Encoding_UTF32)),
              BuildProject(bo, 3, <<>>)}

\* blocks whose declared size is not the size of their payload, and headers
\* that count more blocks, or fewer, than the file holds
ProjectsSized(bo) ==
    LET clr == U32(2, bo) \o <<127, 255, 16, 10>> \o <<1, 2, 3, 4>>
    IN  {BuildProject(bo, Encoding_UTF8,
                      <<BuildBlock(Text_CLR1, declared, clr \o filler, bo), ColorLabels(bo)>>) :
            declared \in {0, 4, 12, 13, 16, 17, 32, 33}, filler \in {<<>>, [k \in 1..20 |-> 43]}}
        \cup {BuildFile(Text_MsgPrjBn, bo, Encoding_UTF8, n, <<Colors(bo), ColorLabels(bo)>>) :
                 n \in 0..3}

\* a project file cut short
ProjectsCut ==
    LET base == BuildProject("little", Encoding_UTF8, <<Colors("little"), ColorLabels("little")>>)
    IN  {SubSeq(base, 1, n) : n \in {0, 7, 8, 10, 20, 31, 32, 36, 40, 47, 48, 52, 59, 64, 80, 95}}

MsbpInputs ==
    ColorStyleProjects \cup ProjectsDecoded("little") \cup ProjectsDecoded("big") \cup ProjectsOther("little")
        \cup ProjectsSized("little") \cup ProjectsSized("big") \cup ProjectsCut

\* a character of a message
Char(c, encoding, bo) == PackUnsigned(c, CharSize(encoding), bo)

\* a tag of a message: the control character, group_idx, type_idx, param_count
\* and the bytes of the parameters
TagBytes(group_idx, type_idx, param_count, params, encoding, bo) ==
    Char(14, encoding, bo) \o U16(group_idx, bo) \o U16(type_idx, bo) \o U16(param_count, bo)
        \o params

\* the parameters of tag 0 of group 0 after msbt.py:21-24: replace = 7, rt = "r"
ReplaceParams(encoding, bo) ==
    U16(7, bo) \o U16(CharSize(encoding), bo) \o Char(114, encoding, bo)

\* "A", and "A", the tag (0, 0), "B"
MsgPlain(encoding, bo) == Char(65, encoding, bo) \o Char(0, encoding, bo)
MsgReplace(param_count, encoding, bo) ==
    Char(65, encoding, bo)
        \o TagBytes(0, 0, param_count, ReplaceParams(encoding, bo), encoding, bo)
        \o Char(66, encoding, bo) \o Char(0, encoding, bo)

\* the tag (group_idx, type_idx) alone
MsgTag(group_idx, type_idx, param_count, params, bo) ==
    TagBytes(group_idx, type_idx, param_count, params, Encoding_UTF8, bo) \o <<0>>

Labels(labels, bo) == SizedBlock(Text_LBL1, BuildLabelBlock1(labels, bo), bo)
Texts(messages, bo) == SizedBlock(Text_TXT2, BuildTable32(messages, bo), bo)

\* message files for sequences of files
MessageFiles ==
    LET bo == "little"
        u8 == Encoding_UTF8
    IN  {BuildMessages(bo, u8, <<Labels(<<LabelB, LabelA>>, bo),
                                 Texts(<<MsgPlain(u8, bo), MsgReplace(2, u8, bo)>>, bo)>>),
         BuildMessages(bo, u8, <<Texts(<<MsgReplace(0, u8, bo), MsgTag(0, 1, 0, <<>>, bo)>>, bo),
                                 Labels(<<LabelA, LabelB>>, bo)>>),
         BuildMessages(bo, u8, <<Texts(<<MsgTag(0, 2, 1, U16(50, bo), bo),
                                         MsgTag(0, 3, 1, <<254, 255>>, bo)>>, bo)>>),
         BuildMessages(bo, u8, <<Labels(<<LabelA>>, bo)>>),
         BuildMessages(bo, u8, <<Labels(<<LabelA, [name |-> <<65>>, idx |-> 1]>>, bo),
                                 Texts(<<MsgPlain(u8, bo), MsgTag(5, 1, 1, <<9>>, bo)>>, bo)>>),
         BuildMessages(bo, Encoding_UTF16,
                       <<Labels(<<LabelA, LabelB>>, bo),
                         Texts(<<MsgPlain(Encoding_UTF16, bo),
                                 MsgReplace(2, Encoding_UTF16, bo)>>, bo)>>)}

\* a message file of the one message "A", the tag (0, 0), "B", the tag declaring
\* param_count parameters
ReplaceFile(param_count) ==
    BuildMessages("little", Encoding_UTF8,
                  <<Texts(<<MsgReplace(param_count, Encoding_UTF8, "little")>>, "little")>>)

\* message files decoded alone
MessageFilesAlone ==
    LET bo == "little"
        u8 == Encoding_UTF8
        txt == BuildTable32(<<MsgPlain(u8, bo), MsgPlain(u8, bo)>>, bo)
    IN  {BuildMessages(bo, u8, <<>>),
         BuildMessages(bo, u8, <<Labels(<<[name |-> <<65>>, idx |-> 2]>>, bo),
                                 Texts(<<MsgPlain(u8, bo), MsgPlain(u8, bo)>>, bo)>>),
         BuildMessages(bo, u8, <<SizedBlock(<<65, 84, 82, 49>>, <<0, 0>>, bo)>>),
         BuildMessages(bo, u8, <<Texts(<<MsgTag(9, 0, 0, <<>>, bo)>>, bo)>>),
         BuildMessages(bo, u8, <<Texts(<<MsgTag(0, 1, 3, <<>>, bo)>>, bo)>>),
         BuildMessages("big", u8, <<Labels(<<LabelA>>, "big"),
                                    Texts(<<MsgReplace(2, u8, "big")>>, "big")>>),
         BuildFile(Text_MsgStdBn, bo, u8, 3, <<Labels(<<LabelA>>, bo)>>)}
        \cup {BuildMessages(bo, u8, <<BuildBlock(Text_TXT2, declared, txt \o filler, bo),
                                      Labels(<<LabelA, LabelB>>, bo)>>) :
                 declared \in {0, 16, 17, 33}, filler \in {<<>>, [k \in 1..20 |-> 43]}}
        \cup {ReplaceFile(param_count) : param_count \in 0..3}

\* the project files against which message files are decoded
CatalogProjects ==
    {BuildProject("little", Encoding_UTF8, blocks) : blocks \in
        {Catalog("little", Encoding_UTF8), CatalogTwoGroups("little"), CatalogReordered("little"),
         CatalogOneTag("little"), <<Colors("little"), ColorLabels("little")>>}}

\* the message files of a run, in the order in which they are decoded
Batches(stream) ==
    IF stream \in CatalogProjects
    THEN SeqsUpTo(MessageFiles, MaxMessageFiles) \cup {<<f>> : f \in MessageFilesAlone}
    ELSE {<<>>}

\* no message file is being decoded
MsbtNext(files, n, patched) == [MsbtCall(<<>>, files, n, patched) EXCEPT !.pc = "next"]

MainInit ==
    \E stream \in MsbpInputs :
        \E files \in Batches(stream) :
            msbp = MsbpCall(stream) /\ msbt = MsbtNext(files, 0, 0)

MSBP_enter ==
    /\ msbp.pc = "call"
    /\ msbp' = MsbpEnter(msbp)
    /\ UNCHANGED <<src, yaz, sarc, szs, byml, rs, lbl, msbt>>

MSBP_block ==
    /\ msbp.pc = "block"
    /\ msbp' = MsbpBlock(msbp)
    /\ UNCHANGED <<src, yaz, sarc, szs, byml, rs, lbl, msbt>>

MSBP_colors ==
    /\ msbp.pc = "colors"
    /\ msbp' = MsbpColors(msbp)
    /\ UNCHANGED <<src, yaz, sarc, szs, byml, rs, lbl, msbt>>

MSBP_attributes ==
    /\ msbp.pc = "attributes"
    /\ msbp' = MsbpAttributes(msbp)
    /\ UNCHANGED <<src, yaz, sarc, szs, byml, rs, lbl, msbt>>

MSBP_tags ==
    /\ msbp.pc = "tags"
    /\ msbp' = MsbpTags(msbp)
    /\ UNCHANGED <<src, yaz, sarc, szs, byml, rs, lbl, msbt>>

MSBP_styles ==
    /\ msbp.pc = "styles"
    /\ msbp' = MsbpStyles(msbp)
    /\ UNCHANGED <<src, yaz, sarc, szs, byml, rs, lbl, msbt>>

MSBP_filenames ==
    /\ msbp.pc = "filenames"
    /\ msbp' = MsbpFilenames(msbp)
    /\ UNCHANGED <<src, yaz, sarc, szs, byml, rs, lbl, msbt>>

\* batch_msbt.py:55-56: the next message file, decoded against the project
main_MSBT ==
    /\ msbp.pc = "done"
    /\ msbt.pc = "next"
    /\ msbt.files # <<>>
    /\ msbt' = MsbtCall(Head(msbt.files), Tail(msbt.files), msbt.n, msbt.patched)
    /\ UNCHANGED <<src, yaz, sarc, szs, byml, rs, lbl, msbp>>

MSBT_enter ==
    /\ msbt.pc = "call"
    /\ msbt' = MsbtEnter(msbt)
    /\ UNCHANGED <<src, yaz, sarc, szs, byml, rs, lbl, msbp>>

MSBT_block ==
    /\ msbt.pc = "block"
    /\ msbt' = MsbtBlock(msbt)
    /\ UNCHANGED <<src, yaz, sarc, szs, byml, rs, lbl, msbp>>

\* msbt.py:20-26 writes into the data of the project
TXT2_patch ==
    /\ msbt.pc = "patch"
    /\ msbt' = TXT2Patch(msbt, msbp.data).s
    /\ msbp' = [msbp EXCEPT !.data = TXT2Patch(msbt, msbp.data).project]
    /\ UNCHANGED <<src, yaz, sarc, szs, byml, rs, lbl>>

TXT2_messages ==
    /\ msbt.pc = "messages"
    /\ msbt' = TXT2Read(msbt, msbp.data)
    /\ UNCHANGED <<src, yaz, sarc, szs, byml, rs, lbl, msbp>>

MSBT_data ==
    /\ msbt.pc = "data"
    /\ msbt' = MsbtData(msbt)
    /\ UNCHANGED <<src, yaz, sarc, szs, byml, rs, lbl, msbp>>

\* batch_msbt.py:57-59: the data is written out, and the loop goes on
main_dump ==
    /\ msbt.pc = "done"
    /\ msbt' = [msbt EXCEPT !.pc = "next", !.n = @ + 1]
    /\ UNCHANGED <<src, yaz, sarc, szs, byml, rs, lbl, msbp>>

MainNext ==
    \/ MSBP_enter
    \/ MSBP_block
    \/ MSBP_colors
    \/ MSBP_attributes
    \/ MSBP_tags
    \/ MSBP_styles
    \/ MSBP_filenames
    \/ main_MSBT
    \/ MSBT_enter
    \/ MSBT_block
    \/ TXT2_patch
    \/ TXT2_messages
    \/ MSBT_data
    \/ main_dump

MsbpIdle == MsbpCall(<<>>)
MsbtIdle == MsbtNext(<<>>, 0, 0)
LmsIdle == msbp = MsbpIdle /\ msbt = MsbtIdle

----------------------------------------------------------------------------
vars == <<src, yaz, sarc, szs, byml, rs, lbl, msbp, msbt>>

\* Yaz0.decompress applied to each stream of YazInputs
Init == YazInit /\ sarc = SarcIdle /\ szs = SzsCall /\ byml = BymlIdle /\ rs = StrIdle /\ lbl = LblIdle /\ LmsIdle

Next == YazNext

Spec == Init /\ [][Next]_vars

\* SARC constructed from each archive of SarcInputs
InitSarc ==
    SarcInit /\ src = <<>> /\ yaz = YazCall /\ szs = SzsCall /\ byml = BymlIdle /\ rs = StrIdle /\ lbl = LblIdle /\ LmsIdle

SpecSarc == InitSarc /\ [][SarcNext]_vars

\* SZS constructed from each stream of SzsInputs
InitSzs == SzsInitial /\ yaz = YazCall /\ sarc = SarcIdle /\ byml = BymlIdle /\ rs = StrIdle /\ lbl = LblIdle /\ LmsIdle

SpecSzs == InitSzs /\ [][SzsNext]_vars

\* BYML constructed from each document of BymlInputs, quiet and not
InitByml ==
    BymlInit /\ src = <<>> /\ yaz = YazCall /\ sarc = SarcIdle /\ szs = SzsCall /\ rs = StrIdle /\ lbl = LblIdle /\ LmsIdle

SpecByml == InitByml /\ [][BymlNext]_vars

\* read_string called once with each of StrCalls
InitStr ==
    StrInit /\ src = <<>> /\ yaz = YazCall /\ sarc = SarcIdle /\ szs = SzsCall /\ byml = BymlIdle
        /\ lbl = LblIdle /\ LmsIdle

SpecStr == InitStr /\ [][StrNext]_vars

\* LabelBlock constructed on each block of LblInputs
InitLbl ==
    LblInit /\ src = <<>> /\ yaz = YazCall /\ sarc = SarcIdle /\ szs = SzsCall /\ byml = BymlIdle
        /\ rs = StrIdle /\ LmsIdle

SpecLbl == InitLbl /\ [][LblNext]_vars

\* batch_msbt.main on each project file of MsbpInputs and each of its Batches
InitMain ==
    MainInit /\ src = <<>> /\ yaz = YazCall /\ sarc = SarcIdle /\ szs = SzsCall /\ byml = BymlIdle
        /\ rs = StrIdle /\ lbl = LblIdle

SpecMain == InitMain /\ [][MainNext]_vars

----------------------------------------------------------------------------
(* Properties of Yaz0.decompress *)

\* the big-endian u32 at offset 0x4 of the stream
DeclaredSize == UnpackBE32(SubSeq(src, 5, 8))

YazRunning == yaz.pc \in {"while", "code", "op", "copy", "shift", "done"}

\* C1: a returned byte string is exactly as long as the size declared at offset
\* 0x4, and the output position never passes the declared size while decoding.
C1_OutputLengthIsDeclared ==
    /\ YazRunning => /\ yaz.dst_idx <= DeclaredSize
                     /\ Len(yaz.dst_buffer) = DeclaredSize
    /\ yaz.pc = "raise" /\ yaz.err = "IndexError"
          => yaz.dst_idx <= DeclaredSize /\ Len(yaz.dst_buffer) = DeclaredSize
    /\ yaz.pc = "done" => /\ decompress(src).err = ""
                          /\ Len(decompress(src).out) = DeclaredSize
                          /\ yaz.dst_idx = DeclaredSize

\* C1's case: a value is returned after a back-reference filled the buffer to its end
C1_Witness ==
    /\ yaz.pc = "done"
    /\ yaz.num_bytes >= 3
    /\ yaz.i = yaz.num_bytes
    /\ yaz.dst_idx = DeclaredSize
    /\ DeclaredSize >= 4

\* C2: a back-reference (dist, length) that began at output position p, with its
\* source inside the output, leaves output[p+k] = output[p-(dist+1)+k] for every
\* byte k copied so far, bytes of the same copy included; distance 0 repeats the
\* one byte before p.
C2_BackrefCopiesInOrder ==
    yaz.pc = "copy" =>
        LET p == yaz.dst_idx - yaz.i
        IN  p - (yaz.dist + 1) >= 0 =>
              /\ \A k \in 0..(yaz.i - 1) :
                    At(yaz.dst_buffer, p + k) = At(yaz.dst_buffer, p - (yaz.dist + 1) + k)
              /\ yaz.dist = 0 =>
                    \A k \in 0..(yaz.i - 1) : At(yaz.dst_buffer, p + k) = At(yaz.dst_buffer, p - 1)

\* C2's case: a finished copy longer than its distance, so it read its own bytes,
\* of a byte that is not the buffer's initial zero
C2_Witness ==
    /\ yaz.pc = "copy"
    /\ yaz.i = yaz.num_bytes
    /\ yaz.num_bytes > yaz.dist + 1
    /\ yaz.dst_idx - yaz.i - (yaz.dist + 1) >= 0
    /\ At(yaz.dst_buffer, yaz.dst_idx - 1) # 0

(* The format as its description words it: operations in groups of eight, the
   n-th operation of a group governed by bit 7-n of the group's control byte. *)

RECURSIVE RefRepeat(_, _, _)
\* out extended by length bytes, each the byte distance+1 places before it
RefRepeat(out, distance, length) ==
    IF length = 0 THEN out
    ELSE RefRepeat(Append(out, out[Len(out) + 1 - (distance + 1)]), distance, length - 1)

RefFail(out) == [ok |-> FALSE, out |-> out]

RECURSIVE RefDecode(_, _, _, _, _, _)
RECURSIVE RefOperation(_, _, _, _, _, _)
\* data from (1-based) position pos on, after n operations that wrote out;
\* ctl is the control byte of the group the n-th operation belongs to
RefDecode(data, pos, ctl, n, out, size) ==
    IF Len(out) = size THEN [ok |-> TRUE, out |-> out]
    ELSE IF Len(out) > size THEN RefFail(out)
    ELSE IF n % 8 # 0 THEN RefOperation(data, pos, ctl, n, out, size)
    ELSE IF pos > Len(data) THEN RefFail(out)
    ELSE RefOperation(data, pos + 1, data[pos], n, out, size)

RefOperation(data, pos, ctl, n, out, size) ==
    IF (ctl \div (2 ^ (7 - (n % 8)))) % 2 = 1
    THEN IF pos > Len(data) THEN RefFail(out)
         ELSE RefDecode(data, pos + 1, ctl, n + 1, Append(out, data[pos]), size)
    ELSE IF pos + 1 > Len(data) THEN RefFail(out)
    ELSE LET hi       == data[pos] \div 16
             distance == (data[pos] % 16) * 256 + data[pos + 1]
         IN  IF hi = 0 /\ pos + 2 > Len(data) THEN RefFail(out)
             ELSE IF distance + 1 > Len(out) THEN RefFail(out)
             ELSE RefDecode(data, IF hi = 0 THEN pos + 3 ELSE pos + 2, ctl, n + 1,
                            RefRepeat(out, distance, IF hi = 0 THEN data[pos + 2] + 18 ELSE hi + 2),
                            size)

\* the bitstream of the stream, from offset 0x10
Bitstream == SubSeq(src, 17, Len(src))

\* C3: the bitstream from offset 0x10 is decoded in groups of eight operations, a
\* control byte fetched per group and its bits used most significant first: a set
\* bit copies a literal, a clear bit a pair with distance = (low nibble << 8) | byte2
\* and length = high nibble + 2, or a third byte + 0x12 when the nibble is zero:
\* whenever that reading of the stream yields an output of the declared size, the
\* call returns it; 0xF0 'A' 'B' 'C' 'D' with declared size 4 gives "ABCD".
C3_BitstreamInterpretation ==
    /\ yaz.pc = "done" \/ (yaz.pc = "raise" /\ yaz.err = "IndexError") =>
          (RefDecode(Bitstream, 1, 0, 0, <<>>, DeclaredSize).ok =>
              /\ yaz.pc = "done"
              /\ yaz.dst_buffer = RefDecode(Bitstream, 1, 0, 0, <<>>, DeclaredSize).out)
    /\ yaz.pc = "done" /\ src = YazHeader(4) \o YazABCD => yaz.dst_buffer = <<65, 66, 67, 68>>

\* C3's case: a stream of two groups whose second control byte was used, decoded
C3_Witness ==
    /\ yaz.pc = "done"
    /\ src = YazHeader(9) \o YazTwoGroups
    /\ RefDecode(Bitstream, 1, 0, 0, <<>>, DeclaredSize).ok
    /\ yaz.dst_buffer = <<65, 66, 65, 66, 65, 66, 65, 66, 67>>

----------------------------------------------------------------------------
(* Properties of SARC *)

\* the archive's fields where the layout puts them, in the order its mark names
ArcOrder == IF SubSeq(sarc.stream, 7, 8) = <<254, 255>> THEN "big" ELSE "little"
ArcField(offset, size) == UnpackUnsigned(SubSeq(sarc.stream, offset + 1, offset + size), ArcOrder)
ArcDataOffset == ArcField(12, 4)
ArcFileCount == ArcField(26, 2)
ArcStart(i) == ArcField(32 + 16 * i + 8, 4)
ArcEnd(i) == ArcField(32 + 16 * i + 12, 4)
ArcName(i) == At(sarc.filenames, i)

\* buffer[data_offset + start_i : data_offset + end_i]
ArcSlice(i) == Slice(sarc.stream, ArcDataOffset + ArcStart(i), ArcDataOffset + ArcEnd(i))

\* C4 as claimed: after construction files maps, for every entry i, name i to
\* exactly buffer[data_offset + start_i : data_offset + end_i], of length
\* end_i - start_i.
C4_EveryEntryByName ==
    sarc.pc = "done" =>
        /\ Len(sarc.filenames) = ArcFileCount
        /\ \A i \in 0..(ArcFileCount - 1) :
              /\ ArcName(i) \in DOMAIN sarc.files
              /\ sarc.files[ArcName(i)] = ArcSlice(i)
              /\ Len(sarc.files[ArcName(i)]) = ArcEnd(i) - ArcStart(i)

\* no later entry has entry i's name
ArcLastOfName(i) == \A j \in (i + 1)..(ArcFileCount - 1) : ArcName(j) # ArcName(i)

\* C4 as amended: after construction files holds exactly the names of the table,
\* entry i paired with name i, and maps the name of every entry i that is the last
\* of its name and has start_i <= end_i to buffer[data_offset + start_i :
\* data_offset + end_i], of length end_i - start_i; an entry with end_i = start_i - 1
\* gets the buffer from data_offset + start_i to its end.
C4_LastEntryByName ==
    sarc.pc = "done" =>
        /\ Len(sarc.filenames) = ArcFileCount
        /\ DOMAIN sarc.files = {ArcName(i) : i \in 0..(ArcFileCount - 1)}
        /\ \A i \in 0..(ArcFileCount - 1) :
              ArcLastOfName(i) =>
                  IF ArcStart(i) <= ArcEnd(i)
                  THEN /\ sarc.files[ArcName(i)] = ArcSlice(i)
                       /\ Len(sarc.files[ArcName(i)]) = ArcEnd(i) - ArcStart(i)
                  ELSE /\ ArcEnd(i) = ArcStart(i) - 1
                       /\ sarc.files[ArcName(i)]
                            = SliceFrom(sarc.stream, ArcDataOffset + ArcStart(i))

\* C4's case: two files of different names and different non-empty slices
C4_Witness ==
    /\ sarc.pc = "done"
    /\ ArcFileCount = 2
    /\ ArcName(0) # ArcName(1)
    /\ ArcStart(0) < ArcEnd(0)
    /\ ArcStart(1) < ArcEnd(1)
    /\ sarc.files[ArcName(0)] # sarc.files[ArcName(1)]
    /\ sarc.files[ArcName(1)] = ArcSlice(1)

\* archives of distinct names and ordered offsets, every field big-endian
SarcBigEndian ==
    {BuildSarc("big", names, entries, SarcData) :
        names \in {<<>>, << <<97>> >>}, entries \in {<<>>, << <<0, 2>> >>}}

\* C5: an archive whose mark is FE FF and whose fields are all big-endian is
\* parsed, its fields decoded big-endian, as its little-endian equivalent is.
C5_BigEndianArchiveParses ==
    sarc.pc \in {"done", "raise"} /\ sarc.stream \in SarcBigEndian =>
        /\ sarc.pc = "done"
        /\ sarc.data_offset = UnpackBig(SubSeq(sarc.stream, 13, 16))

----------------------------------------------------------------------------
(* Properties of SZS *)

\* C6: SZS(stream).files equals SARC(Yaz0.decompress(stream)).files, and SZS
\* fails exactly when the decompress step or the archive parse step fails.
C6_SzsIsComposition ==
    szs.pc \in {"done", "raise"} =>
        \A d \in {decompress(src)} :
            IF d.err # "" THEN szs.pc = "raise"
            ELSE \A a \in {SARC(d.out)} :
                    /\ szs.pc = "raise" <=> a.err # ""
                    /\ szs.pc = "done" => szs.files = a.files

----------------------------------------------------------------------------
(* Properties of BYML.  The Doc operators read the document's fields off the
   stream at the places the format puts them. *)

DocOrder == IF SubSeq(byml.stream, 1, 2) = <<66, 89>> THEN "big" ELSE "little"
DocField(offset, size) ==
    UnpackUnsigned(SubSeq(byml.stream, offset + 1, offset + size), DocOrder)
DocRoot == DocField(12, 4)
DocEntryCount == DocField(DocRoot + 1, 3)
DocKeyIndex(i) == DocField(DocRoot + 4 + 8 * i, 3)
DocEntryType(i) == At(byml.stream, DocRoot + 4 + 8 * i + 3)
DocEntryValue(i) == DocField(DocRoot + 4 + 8 * i + 4, 4)

\* the construction has come to the root node, and the root is a whole map node
DocIsMap ==
    /\ byml.pc \in {"done", "raise"}
    /\ byml.b.cur_node # <<>> \/ byml.pc = "done"
    /\ DocRoot # 0
    /\ DocRoot + 4 <= Len(byml.stream)
    /\ At(byml.stream, DocRoot) = NT_HASH
    /\ DocRoot + 4 + 8 * DocEntryCount <= Len(byml.stream)

\* the key of entry i, when its index is within the table of map keys
DocKeyOK(i) == byml.b.hash_key_table.some /\ DocKeyIndex(i) < Len(byml.b.hash_key_table.list)
DocKey(i) == At(byml.b.hash_key_table.list, DocKeyIndex(i))

\* the document has finished decoding with a map
DocDecodedMap == byml.pc = "done" /\ byml.root.t = "dict"

\* C7: a root map node of n entries whose keys are in the table and whose values
\* are inline 32-bit integers decodes to the map of hash_key_table[key_index] to
\* the entry's value; the one-entry map of key 0 into ["key"] and the i32 42
\* decodes to {"key": 42}.
C7_MapDecodes ==
    /\ DocIsMap /\ DocEntryCount > 0
         /\ (\A i \in 0..(DocEntryCount - 1) :
                DocKeyOK(i) /\ DocEntryType(i) \in {NT_I32, NT_U32}) =>
            /\ DocDecodedMap
            /\ DOMAIN byml.root.map = {DocKey(i) : i \in 0..(DocEntryCount - 1)}
            /\ \A i \in 0..(DocEntryCount - 1) :
                  (\A j \in (i + 1)..(DocEntryCount - 1) : DocKey(j) # DocKey(i)) =>
                      byml.root.map[DocKey(i)] = PyInt(DocEntryValue(i))
    /\ byml.pc \in {"done", "raise"} /\ byml.stream = BymlBase =>
            /\ DocDecodedMap
            /\ byml.root.map = DictSet(<<>>, Text_key, PyInt(42))

\* the last message written to stderr
LastError == byml.b.stderr[Len(byml.b.stderr)]

\* decoding has stopped with the index-out-of-range error, its message carrying
\* the path of the node
IndexOutOfRange ==
    /\ byml.pc = "raise"
    /\ byml.err = "SystemExit"
    /\ byml.b.stderr # <<>>
    /\ LastError.text = "string table index out of range"
    /\ LastError.args = <<get_cur_node(byml.b)>>

\* C8: when the first entry of the root map has a key index at or beyond the
\* length of the table of keys, or is a string node whose index is at or beyond
\* the length of the string table, decoding stops with the index-out-of-range
\* error that carries the node's path, and returns no value.
C8_IndexOutOfRange ==
    DocIsMap /\ DocEntryCount > 0 =>
        /\ byml.b.hash_key_table.some /\ ~DocKeyOK(0) => IndexOutOfRange
        /\ DocKeyOK(0) /\ DocEntryType(0) = NT_STRING /\ byml.b.string_table.some
             /\ DocEntryValue(0) >= Len(byml.b.string_table.list) => IndexOutOfRange

\* the warnings about a bool node written to stdout
BoolWarnings ==
    {k \in 1..Len(byml.b.stdout) : byml.b.stdout[k].text = "bool node has value, should be 0 or 1"}

\* C9: a bool entry of the root map decodes to false when its raw value is 0
\* and to true otherwise, with one warning when the value is neither 0 nor 1
\* and quiet is off, and none when quiet is on.
C9_BoolDecodes ==
    DocIsMap /\ DocEntryCount = 1 /\ DocKeyOK(0) /\ DocEntryType(0) = NT_BOOL =>
        /\ DocDecodedMap
        /\ byml.root.map[DocKey(0)] = PyBool(DocEntryValue(0) # 0)
        /\ Cardinality(BoolWarnings)
             = IF ~byml.quiet /\ DocEntryValue(0) \notin {0, 1} THEN 1 ELSE 0

----------------------------------------------------------------------------
(* Properties of BinaryReader.read_string *)

\* the field: the size bytes of the stream at the cursor of the call
StrField == SubSeq(rs.reader.stream, 1, rs.size)

\* the field's code units
StrUnits == [k \in 1..(rs.size \div rs.char_size) |->
                SubSeq(StrField, (k - 1) * rs.char_size + 1, k * rs.char_size)]

\* the number of code units that precede the first null code unit
StrLength ==
    IF \E k \in 1..Len(StrUnits) : IsNullUnit(StrUnits[k])
    THEN (CHOOSE k \in 1..Len(StrUnits) :
              /\ IsNullUnit(StrUnits[k])
              /\ \A j \in 1..(k - 1) : ~IsNullUnit(StrUnits[j])) - 1
    ELSE Len(StrUnits)

\* the text of the code units that precede the first null code unit
StrText == Decode(Concat(SubSeq(StrUnits, 1, StrLength)), rs.encoding_name).text

\* a call with a fixed size, on a stream that holds the whole field
StrFixedSize == rs.size > 0 /\ rs.size <= Len(rs.reader.stream) /\ rs.pc \in {"done", "raise"}

\* C10: for every width of code unit, read_string with a fixed size returns
\* the code units of the field that precede the first null code unit, the whole
\* field if none is null, and advances the cursor by the size of the field.
C10_FixedSizeString ==
    StrFixedSize =>
        /\ rs.pc = "done"
        /\ rs.val = StrText
        /\ rs.reader.position = rs.size

\* the code units of the whole stream, from the cursor of the call
StrStreamUnits == [k \in 1..(Len(rs.reader.stream) \div rs.char_size) |->
                      SubSeq(rs.reader.stream, (k - 1) * rs.char_size + 1, k * rs.char_size)]

\* the stream holds a null code unit on a code-unit boundary
StrHasNull == \E k \in 1..Len(StrStreamUnits) : IsNullUnit(StrStreamUnits[k])

\* the position, in code units, of the first null code unit of the stream
StrFirstNull == CHOOSE k \in 1..Len(StrStreamUnits) :
                    /\ IsNullUnit(StrStreamUnits[k])
                    /\ \A j \in 1..(k - 1) : ~IsNullUnit(StrStreamUnits[j])

\* a call without a size, on a stream that holds a null code unit
StrNullTerminated == rs.size = -1 /\ StrHasNull /\ rs.pc \in {"done", "raise"}

\* C11: for every width of code unit (1, 2 or 4 bytes), read_string without a
\* size, on a stream that holds a null code unit on a code-unit boundary,
\* returns the code units before the first null one, leaves the cursor right
\* after that null code unit, and does not raise the end-of-buffer error.
C11_NullTerminatedString ==
    StrNullTerminated =>
        /\ rs.pc = "done"
        /\ rs.val = Decode(Concat(SubSeq(StrStreamUnits, 1, StrFirstNull - 1)),
                           rs.encoding_name).text
        /\ rs.reader.position = StrFirstNull * rs.char_size

\* a call that needs bytes beyond the end of the stream: a fixed size larger
\* than the stream, or no size and no null code unit to stop at
StrBeyondEnd ==
    /\ rs.pc \in {"done", "raise"}
    /\ \/ rs.size > Len(rs.reader.stream)
       \/ rs.size = -1 /\ ~StrHasNull

\* C12: a read_string call, with a fixed size or null-terminated, that needs
\* bytes beyond the end of the stream fails with the end-of-buffer error
\* (OSError) and returns no shorter or partial value.
C12_ReadBeyondEndFails ==
    StrBeyondEnd => rs.pc = "raise" /\ rs.err = "OSError"

----------------------------------------------------------------------------
(* Properties of LabelBlock *)

\* the indices of a list of labels, in the order of the list
LblIndices(labels) == [k \in 1..Len(labels) |-> labels[k].idx]

\* how many times a label occurs in a list
LblCount(labels, label) == Cardinality({k \in 1..Len(labels) : labels[k] = label})

\* two lists hold the same labels, each as many times
LblSameLabels(a, b) ==
    /\ Len(a) = Len(b)
    /\ \A k \in 1..Len(a) : LblCount(a, a[k]) = LblCount(b, a[k])

LblAscending(labels) ==
    \A j, k \in 1..Len(labels) : j < k => labels[j].idx <= labels[k].idx

\* C13: after decode the labels are in ascending order of index, whatever the
\* order of groups and labels in the file, and they are exactly the labels read
\* from all groups: the sort drops none and duplicates none.
C13_LabelsInIndexOrder ==
    /\ [](lbl.pc = "done" => LblAscending(lbl.labels))
    /\ [][lbl.pc = "sort" => /\ lbl'.pc = "done"
                             /\ LblSameLabels(lbl.labels, lbl'.labels)]_vars

\* a block whose labels come in the file with indices 2, 0, 1
LblExample ==
    BuildLabelBlock2(<<[name |-> <<67, 67>>, idx |-> 2]>>,
                     <<[name |-> <<65>>, idx |-> 0], [name |-> <<66>>, idx |-> 1]>>,
                     FALSE, "little")

C13_Witness ==
    /\ lbl.pc = "done"
    /\ lbl.reader.stream = LblExample
    /\ LblIndices(lbl.labels) = <<0, 1, 2>>

----------------------------------------------------------------------------
(* Properties of MSBP and MSBT *)

\* the byte order and the number of blocks that the header of a file declares
RefByteOrder(stream) == IF SubSeq(stream, 9, 10) = <<254, 255>> THEN "big" ELSE "little"
RefNumBlocks(stream) == UnpackUnsigned(SubSeq(stream, 15, 16), RefByteOrder(stream))

\* the size that the block at position p declares
RefDeclaredSize(stream, p) == UnpackUnsigned(SubSeq(stream, p + 5, p + 8), RefByteOrder(stream))

\* the smallest multiple of 16 that is not below p
AlignUp16(p) == ((p + 15) \div 16) * 16

RECURSIVE RefBlockStart(_, _)
\* where the k-th block of a file starts, counting from 0: the first one after
\* the 32 bytes of the header, each next one at the multiple of 16 that follows
\* the declared size and the 16 bytes of the head of the block before it
RefBlockStart(stream, k) ==
    IF k = 0 THEN 32
    ELSE AlignUp16(RefBlockStart(stream, k - 1)
                       + RefDeclaredSize(stream, RefBlockStart(stream, k - 1)) + 16)

\* the signatures of the blocks of a file
RefSignatures(stream) ==
    {SubSeq(stream, RefBlockStart(stream, k) + 1, RefBlockStart(stream, k) + 4) :
        k \in 0..(RefNumBlocks(stream) - 1)}

\* the section of data is there exactly if the file holds both blocks, and then
\* it maps the name of every label to the record at the label's index
SectionOf(section, data_block, label_block, width) ==
    IF {data_block, label_block} \subseteq RefSignatures(msbp.stream)
    THEN /\ section \in DOMAIN msbp.data.map
         /\ \A k \in 1..Len(msbp.blocks[label_block]) :
               LET label == msbp.blocks[label_block][k]
               IN  /\ label.name \in DOMAIN msbp.data.map[section].map
                   /\ msbp.data.map[section].map[label.name]
                          = msbp.blocks[data_block][label.idx + 1]
                   /\ Len(msbp.blocks[data_block][label.idx + 1]) = width
    ELSE section \notin DOMAIN msbp.data.map

\* C14: for a project file of well-formed colors and styles blocks, decoding
\* does not fail; data has 'colors' exactly if CLR1 and CLB1 are both present
\* and 'styles' exactly if SYL3 and SLB1 are; a section that is there maps every
\* label name to the record at the label's index, a style being the 4 fields
\* region_width, line_num, font_index, base_color_index.
C14_ColorsAndStyles ==
    msbp.stream \in ColorStyleProjects /\ msbp.pc \in {"done", "raise"} =>
        /\ msbp.pc = "done"
        /\ SectionOf("colors", Text_CLR1, Text_CLB1, 10)
        /\ SectionOf("styles", Text_SYL3, Text_SLB1, 4)

\* the parameters that the project's data gives tag 0 of group 0
ReplaceTagParams == msbp.data.map["tags"].map[0].tags[1].params

\* the text block of the message file at hand has been decoded
TextDecoded == Text_TXT2 \in DOMAIN msbt.blocks

\* C15: after the text block of a message file is decoded against a catalog,
\* tag 0 of group 0 of that catalog has exactly the two parameters replace (U16)
\* and rt (STRING), whatever parameters the project file gave it; and a patch
\* applied to a catalog that was patched before leaves the catalog as it was.
C15_BuiltinPatch ==
    /\ [](TextDecoded =>
            ReplaceTagParams = <<[name |-> Text_replace, type |-> ParamType_U16],
                                 [name |-> Text_rt, type |-> ParamType_STRING]>>)
    /\ [][msbt.pc = "patch" /\ msbt.patched > 0 => msbp'.data = msbp.data]_vars

\* the text block of a second message file is decoded against a catalog whose
\* project file gave tag 0 of group 0 no parameter
C15_Witness ==
    /\ msbp.stream = BuildProject("little", Encoding_UTF8, CatalogReordered("little"))
    /\ msbt.n = 1
    /\ msbt.patched = 6
    /\ TextDecoded
    /\ msbp.blocks[Text_TAG2][msbp.blocks[Text_TGG2][1][3][1] + 1][2] = <<>>

\* C16: over the message files decoded against one project, the built-in
\* parameter lists are written into the project's data once, before the first
\* message is decoded: a step that writes them starts from a project nothing
\* was written into (msbt.patched counts the assignments of msbt.py:21-26)
C16_PatchedOnce == [][msbt'.patched > msbt.patched => msbt.patched = 0]_vars

\* the labels and the messages of the message file at hand, once both blocks
\* are decoded
MsgLabels == msbt.blocks[Text_LBL1]
MsgTexts == msbt.blocks[Text_TXT2]
MsgBothBlocks == {Text_LBL1, Text_TXT2} \subseteq DOMAIN msbt.blocks

\* the block loop of the message file is over and both blocks were decoded
MsgAssembled ==
    /\ msbt.pc \in {"done", "raise"}
    /\ msbt.i = msbt.header.num_blocks
    /\ MsgBothBlocks

MsgNames == {MsgLabels[k].name : k \in 1..Len(MsgLabels)}
MsgIndexInRange == \A k \in 1..Len(MsgLabels) : MsgLabels[k].idx < Len(MsgTexts)

\* the smallest and the largest index among the labels of a name
MsgMinIdx(name) ==
    CHOOSE i \in {MsgLabels[k].idx : k \in {j \in 1..Len(MsgLabels) : MsgLabels[j].name = name}} :
        \A k \in 1..Len(MsgLabels) : MsgLabels[k].name = name => i <= MsgLabels[k].idx
MsgMaxIdx(name) ==
    CHOOSE i \in {MsgLabels[k].idx : k \in {j \in 1..Len(MsgLabels) : MsgLabels[j].name = name}} :
        \A k \in 1..Len(MsgLabels) : MsgLabels[k].name = name => MsgLabels[k].idx <= i

\* the keys of data are the names of the labels, each once, in ascending order
\* of the smallest index of a name
MsgKeysInIndexOrder ==
    /\ Len(msbt.data.keys) = Cardinality(MsgNames)
    /\ {msbt.data.keys[k] : k \in 1..Len(msbt.data.keys)} = MsgNames
    /\ \A a, b \in 1..Len(msbt.data.keys) :
          a < b => MsgMinIdx(msbt.data.keys[a]) <= MsgMinIdx(msbt.data.keys[b])

\* C17 as stated: when both blocks are present, data maps the name of every
\* label to messages[label.index], inserted in ascending index order, and an
\* index that is not below the message count is a fatal error.
C17_EveryLabelItsMessage ==
    MsgAssembled =>
        IF MsgIndexInRange
        THEN /\ msbt.pc = "done"
             /\ MsgKeysInIndexOrder
             /\ \A k \in 1..Len(MsgLabels) :
                   msbt.data.map[MsgLabels[k].name] = MsgTexts[MsgLabels[k].idx + 1]
        ELSE msbt.pc = "raise" /\ msbt.err = "IndexError"

\* C17, amended: when both blocks are present, data maps every label name to
\* the message at the largest index among the labels of that name (of several
\* labels of one name the last in index order decides), the names in ascending
\* order of their smallest index; an index that is not below the message count
\* is a fatal error.
C17_LastLabelOfNameDecides ==
    MsgAssembled =>
        IF MsgIndexInRange
        THEN /\ msbt.pc = "done"
             /\ MsgKeysInIndexOrder
             /\ \A name \in MsgNames : msbt.data.map[name] = MsgTexts[MsgMaxIdx(name) + 1]
        ELSE msbt.pc = "raise" /\ msbt.err = "IndexError"

\* a message file with two labels of one name and different messages is decoded
C17_Witness ==
    /\ msbt.pc = "done"
    /\ MsgBothBlocks
    /\ Len(MsgLabels) = 2
    /\ Len(msbt.data.keys) = 1
    /\ MsgTexts[1] # MsgTexts[2]

\* project files whose four blocks of the tag catalog are well formed: every tag
\* index and every parameter index is in range
TagCatalogProjects ==
    UNION {{BuildProject(bo, Encoding_UTF8, blocks) :
               blocks \in {Catalog(bo, Encoding_UTF8), CatalogTwoGroups(bo), CatalogReordered(bo),
                           CatalogOneTag(bo), CatalogNullUnused(bo)}} : bo \in {"little", "big"}}
        \cup {BuildProject("little", Encoding_UTF8, CatalogNull("little")),
              BuildProject("little", Encoding_UTF16, Catalog("little", Encoding_UTF16)),
              BuildProject("little", Encoding_UTF32, Catalog("little", Encoding_UTF32))}

\* the entry of data['tags'] for the group <<group_idx, name, tag indices>> lists
\* the tags of the group, and each tag the parameters of the tag
TagGroupListed(group) ==
    LET entry == msbp.data.map["tags"].map[group[1]]
    IN  /\ entry.name = group[2]
        /\ Len(entry.tags) = Len(group[3])
        /\ \A t \in 1..Len(group[3]) :
              LET tag == msbp.blocks[Text_TAG2][group[3][t] + 1]
              IN  /\ entry.tags[t].name = tag[1]
                  /\ Len(entry.tags[t].params) = Len(tag[2])
                  /\ \A p \in 1..Len(tag[2]) :
                        LET param == msbp.blocks[Text_TGP2][tag[2][p] + 1]
                        IN  entry.tags[t].params[p] = [name |-> param[2], type |-> param[1]]

\* C18: a project file with well-formed TGG2, TAG2, TGP2 and TGL2 decodes, and
\* before any message file is decoded against it data['tags'] maps each group
\* index to the name and the tags of the group, each tag with its name and the
\* {name, type} of its parameters, for every parameter type, NULL included.
C18_TagCatalog ==
    msbp.stream \in TagCatalogProjects /\ msbp.pc \in {"done", "raise"} /\ msbt.patched = 0 =>
        /\ msbp.pc = "done"
        /\ "tags" \in DOMAIN msbp.data.map
        /\ \A g \in 1..Len(msbp.blocks[Text_TGG2]) :
              /\ msbp.blocks[Text_TGG2][g][1] \in DOMAIN msbp.data.map["tags"].map
              /\ TagGroupListed(msbp.blocks[Text_TGG2][g])

\* C19: the marker of a tag holds the name and the decoded value of every
\* parameter of the tag's schema, for every value of param_count, and the text
\* goes on right after the last parameter: the message "A", tag (0, 0) with
\* replace = 7 and rt = "r", "B" decodes to A<group, tag, (replace: 7, rt: 'r')>B
\* whatever param_count the tag declares.
C19_MarkerHasParameters ==
    \A param_count \in 0..3 :
        msbt.stream = ReplaceFile(param_count) /\ TextDecoded =>
            msbt.blocks[Text_TXT2]
                = << <<65, 60>> \o msbp.data.map["tags"].map[0].name
                        \o <<44, 32>> \o msbp.data.map["tags"].map[0].tags[1].name
                        \o <<44, 32, 40, 114, 101, 112, 108, 97, 99, 101, 58, 32, 55, 44, 32, 114, 116, 58, 32, 39, 114, 39, 41, 62, 66>> >>

\* the steps of MSBP.__init__ and of MSBT.__init__ after the loop over the blocks
MsbpAfterBlocks == {"colors", "attributes", "tags", "styles", "filenames", "done"}
MsbtAfterBlocks == {"data", "done"}

\* C20: in a project file and in a message file the head of block number i,
\* counting from 0, is read at the smallest multiple of 16 that is not below
\* block_start + declared size + 0x10 of the block before it (32 for the first),
\* whatever the decoder of that block consumed, and the loop is left after
\* exactly block_count blocks.
C20_BlockIteration ==
    /\ msbp.pc = "block" =>
          /\ msbp.i <= msbp.header.num_blocks
          /\ msbp.reader.position = RefBlockStart(msbp.stream, msbp.i)
    /\ msbp.pc \in MsbpAfterBlocks => msbp.i = msbp.header.num_blocks
    /\ msbt.pc = "block" =>
          /\ msbt.i <= msbt.header.num_blocks
          /\ msbt.reader.position = RefBlockStart(msbt.stream, msbt.i)
    /\ msbt.pc \in {"patch", "messages"} =>
          /\ msbt.i < msbt.header.num_blocks
          /\ msbt.head.block_start = RefBlockStart(msbt.stream, msbt.i)
    /\ msbt.pc \in MsbtAfterBlocks => msbt.i = msbt.header.num_blocks

\* both blocks of a project file are decoded whose first block declares 17
\* bytes, holds 32 and has 12 of them read by its decoder
C20_Witness ==
    /\ msbp.pc = "done"
    /\ msbp.i = 2
    /\ RefDeclaredSize(msbp.stream, 32) = 17
    /\ RefBlockStart(msbp.stream, 1) = 80
    /\ DOMAIN msbp.blocks = {Text_CLR1, Text_CLB1}

\* C21: every byte that a back-reference copies is read from an output index
\* from 0 up to, and not including, the output position at which it is written:
\* after i bytes of a copy, the copy began reading at copy_idx - i >= 0 and reads
\* below dst_idx. A back-reference that reaches before the start of the output
\* writes no byte.
C21_BackrefReadsWrittenBytes ==
    yaz.pc = "copy" /\ yaz.i > 0 =>
        /\ 0 <= yaz.copy_idx - yaz.i
        /\ yaz.copy_idx < yaz.dst_idx

====
